---- MODULE Spec2Model ----
(***************************************************************************)
(* Resource CRUD service of problem5: Express controller                   *)
(* (ResourceController), TypeORM repository (ResourceRepository), the      *)
(* `resources` table of the Resource entity, and the centralized error     *)
(* handler.                                                                *)
(*                                                                         *)
(* Representation.                                                         *)
(*  - A JavaScript string is a sequence of one-character strings, so that  *)
(*    trim() and parseInt() are computed character by character.           *)
(*  - A JSON value of a request body is a record [t, v]: t is the typeof   *)
(*    tag ("undefined", "string", "number"), v the payload.                *)
(*  - A `value` is counted in thousandths (5 = 0.005, 10 = 0.01), so that  *)
(*    the decimal(10,2) column's rounding to two places is visible.        *)
(*  - Time is a millisecond clock `now` that never goes back; consecutive  *)
(*    requests may read the same millisecond.                              *)
(***************************************************************************)
EXTENDS Integers, Sequences, FiniteSets, TLC

VARIABLES
    store,    \* rows of table `resources` (a set of row records)
    seq,      \* last value handed out by the id sequence of the table
    now,      \* the clock read by new Date()
    resp,     \* the last request and how it was answered
    created,  \* history: ids returned by successful create / bulk create
    deleted,  \* history: ids for which delete returned true
    supplied, \* history: [id, body] of each create whose resource has not been
              \* updated or deleted since
    limiter,  \* the middleware made by rateLimiter: its parameters and its Map
    passed,   \* history: per client, the requests passed on to next() since
              \* the client's current entry was made
    server,   \* the process: DatabaseManager, its DataSource, the HTTP server
    calls     \* the asynchronous calls made so far, finished or in flight

vars == <<store, seq, now, resp, created, deleted, supplied, limiter, passed, server, calls>>

\* the state outside the table and its request handlers
aside == <<limiter, passed, server, calls>>

\* ---------------------------------------------------------------- bounds
MaxRows == 2    \* rows the table may hold
MaxId == 2      \* values the id sequence may hand out
MaxTime == 1    \* last clock value
MaxBulk == 2    \* elements of one bulk-create request

\* ------------------------------------------------------------- JS values
Undefined == [t |-> "undefined", v |-> <<>>]
Str(s) == [t |-> "string", v |-> s]
Num(n) == [t |-> "number", v |-> n]

IsUndefined(x) == x.t = "undefined"

\* truthiness of an optional enumeration label (a label is kept whole, as
\* a string): undefined and "" are falsy
Falsy(x) == IsUndefined(x) \/ (x.t = "string" /\ x.v = "")

\* truthiness of an optional text (a sequence of characters)
FalsyText(x) == IsUndefined(x) \/ (x.t = "string" /\ x.v = <<>>)

\* x || dflt
OrDefault(x, dflt) == IF Falsy(x) THEN Str(dflt) ELSE x

Whitespace == {" "}

RECURSIVE TrimStart(_)
\* String.prototype.trim, leading part
TrimStart(s) ==
    IF s = <<>> THEN <<>>
    ELSE IF Head(s) \in Whitespace THEN TrimStart(Tail(s)) ELSE s

RECURSIVE TrimEnd(_)
\* String.prototype.trim, trailing part
TrimEnd(s) ==
    IF s = <<>> THEN <<>>
    ELSE IF s[Len(s)] \in Whitespace THEN TrimEnd(SubSeq(s, 1, Len(s) - 1)) ELSE s

TrimOf(s) == TrimEnd(TrimStart(s))

Digits == {"0", "1", "2", "3", "4", "5", "6", "7", "8", "9"}

DigitVal(c) ==
    CASE c = "0" -> 0 [] c = "1" -> 1 [] c = "2" -> 2 [] c = "3" -> 3
      [] c = "4" -> 4 [] c = "5" -> 5 [] c = "6" -> 6 [] c = "7" -> 7
      [] c = "8" -> 8 [] c = "9" -> 9

RECURSIVE DigitPrefix(_)
\* the longest prefix of s made of decimal digits
DigitPrefix(s) ==
    IF s = <<>> \/ Head(s) \notin Digits THEN <<>>
    ELSE <<Head(s)>> \o DigitPrefix(Tail(s))

RECURSIVE DigitsValue(_)
DigitsValue(d) ==
    IF d = <<>> THEN 0
    ELSE 10 * DigitsValue(SubSeq(d, 1, Len(d) - 1)) + DigitVal(d[Len(d)])

NaN == [nan |-> TRUE, n |-> 0]
Number(n) == [nan |-> FALSE, n |-> n]

\* parseInt(s, 10): skip leading white space, an optional sign, then the
\* longest run of digits; NaN when there is none.
ParseIntOf(s) ==
    LET u == TrimStart(s)
        neg == u # <<>> /\ Head(u) = "-"
        body == IF u # <<>> /\ Head(u) \in {"-", "+"} THEN Tail(u) ELSE u
        d == DigitPrefix(body)
    IN IF d = <<>> THEN NaN
       ELSE Number(IF neg THEN 0 - DigitsValue(d) ELSE DigitsValue(d))

\* Number(s) of a query-string value: the whole trimmed string must be an
\* optionally signed run of digits (decimal points are outside the inputs).
ToNumberOf(s) ==
    LET u == TrimOf(s)
        neg == u # <<>> /\ Head(u) = "-"
        body == IF u # <<>> /\ Head(u) \in {"-", "+"} THEN Tail(u) ELSE u
        d == DigitPrefix(body)
    IN IF u = <<>> THEN Number(0)
       ELSE IF d = <<>> \/ d # body THEN NaN
       ELSE Number(IF neg THEN 0 - DigitsValue(d) ELSE DigitsValue(d))

\* The texts the requests of this model carry (names, path and query
\* values) and their trimmed forms. trim, parseInt and Number are tabulated
\* over them once, so that a handler's many uses of one conversion cost a
\* look-up each.
Texts ==
    {<<>>, <<" ">>, <<"a">>, <<"b">>, <<" ", "b", " ">>, <<"b", " ">>, <<"5">>,
     <<"x">>, <<"2", "x">>, <<"-", "1">>, <<"1", "0", "1">>, <<"T", "0">>, <<"T", "1">>}
        \cup {<<d>> : d \in Digits}

TrimTable == [s \in Texts |-> TrimOf(s)]
ParseIntTable == [s \in Texts |-> ParseIntOf(s)]
ToNumberTable == [s \in Texts |-> ToNumberOf(s)]

Trim(s) == TrimTable[s]
ParseInt(s) == ParseIntTable[s]
ToNumber(s) == ToNumberTable[s]

\* ------------------------------------------------------- entity and table
ResourceType == {"document", "image", "video", "audio", "other"}
ResourceStatus == {"active", "inactive", "pending", "archived"}
DefaultType == "other"
DefaultStatus == "active"
Null == "null"

\* decimal(10,2): a numeric is rounded to two places (half away from zero)
\* when it is written; with values in thousandths, to a multiple of 10.
RoundToScale(v) ==
    IF v >= 0 THEN ((v + 5) \div 10) * 10 ELSE 0 - (((0 - v) + 5) \div 10) * 10

Ids(st) == {r.id : r \in st}

\* an enum column accepts its labels; an omitted column takes the default
EnumAccepts(labels, x) == IsUndefined(x) \/ (x.t = "string" /\ x.v \in labels)

EnumOrDefault(x, dflt) == IF IsUndefined(x) THEN dflt ELSE x.v

\* (mutant) the lowest id no stored row holds: the id of a deleted row is
\* handed out again
GeneratedIdReusing(st, sq) == CHOOSE i \in 1..(sq + 1) : i \notin Ids(st) /\ \A j \in 1..(i - 1) : j \in Ids(st)

\* the id a @PrimaryGeneratedColumn gives the next inserted row
GeneratedId(st, sq) == sq + 1

\* the row INSERT writes for entity `ent` at id `id`
NewRow(ent, id) ==
    [id |-> id,
     name |-> ent.name.v,
     description |-> Null,
     type |-> EnumOrDefault(ent.type, DefaultType),
     status |-> EnumOrDefault(ent.status, DefaultStatus),
     value |-> RoundToScale(ent.value.v),
     metadata |-> Null,
     createdAt |-> ent.createdAt,
     updatedAt |-> ent.updatedAt]

\* (mutant) enum columns declared as plain text: any label is stored
ColumnsAcceptAnyLabel(ent) == TRUE

\* does the table accept the columns of `ent` (enum labels)
ColumnsAccept(ent) ==
    /\ EnumAccepts(ResourceType, ent.type)
    /\ EnumAccepts(ResourceStatus, ent.status)

\* the entity save() hands back for an inserted row: the object it was
\* given, completed with the generated id and the column defaults (its
\* `value` is the number supplied, not the column's rounded one)
Saved(ent, row) == [row EXCEPT !.value = ent.value.v]

RECURSIVE InsertAll(_, _, _)
\* Repository.save(entities): one INSERT per entity, in order, all in one
\* transaction. Result: [ok, store, seq, rows]; ok = FALSE leaves the table
\* as it was (roll-back). No column but the id carries a unique constraint.
InsertAll(st, sq, ents) ==
    IF ents = <<>> THEN [ok |-> TRUE, store |-> st, seq |-> sq, rows |-> <<>>]
    ELSE IF ~ColumnsAccept(Head(ents))
         THEN [ok |-> FALSE, store |-> st, seq |-> sq, rows |-> <<>>]
    ELSE LET row == NewRow(Head(ents), GeneratedId(st, sq))
             rest == InsertAll(st \cup {row}, row.id, Tail(ents))
         IN IF rest.ok
            THEN [rest EXCEPT !.rows = <<Saved(Head(ents), row)>> \o rest.rows]
            ELSE [ok |-> FALSE, store |-> st, seq |-> sq, rows |-> <<>>]

\* Repository.findOne({ where: { id } })
FindOne(st, id) ==
    IF id \in Ids(st) THEN [found |-> TRUE, row |-> CHOOSE r \in st : r.id = id]
    ELSE [found |-> FALSE, row |-> Null]

\* (mutant) an UPDATE that writes every column, the omitted ones with the
\* column defaults
ApplySetWholeRow(r, set) ==
    [r EXCEPT
        !.name = IF IsUndefined(set.name) THEN @ ELSE set.name.v,
        !.value = IF IsUndefined(set.value) THEN 0 ELSE RoundToScale(set.value.v),
        !.status = IF IsUndefined(set.status) THEN DefaultStatus ELSE set.status.v,
        !.type = IF IsUndefined(set.type) THEN DefaultType ELSE set.type.v,
        !.updatedAt = set.updatedAt]

\* the row UPDATE ... SET <set> leaves in place of row r
ApplySet(r, set) ==
    [r EXCEPT
        !.name = IF IsUndefined(set.name) THEN @ ELSE set.name.v,
        !.value = IF IsUndefined(set.value) THEN @ ELSE RoundToScale(set.value.v),
        !.status = IF IsUndefined(set.status) THEN @ ELSE set.status.v,
        !.type = IF IsUndefined(set.type) THEN @ ELSE set.type.v,
        !.updatedAt = set.updatedAt]

\* (mutant) an UPDATE that refuses to move a row out of status archived
UpdateRowsArchivedFinal(st, id, set) ==
    IF ~ColumnsAccept(set) THEN [ok |-> FALSE, store |-> st]
    ELSE IF \E r \in st : /\ r.id = id
                          /\ r.status = "archived"
                          /\ ~IsUndefined(set.status)
                          /\ set.status.v # "archived"
    THEN [ok |-> FALSE, store |-> st]
    ELSE [ok |-> TRUE,
          store |-> {IF r.id = id THEN ApplySet(r, set) ELSE r : r \in st}]

\* Repository.update(id, set): [ok, store]
UpdateRows(st, id, set) ==
    IF ~ColumnsAccept(set) THEN [ok |-> FALSE, store |-> st]
    ELSE [ok |-> TRUE,
          store |-> {IF r.id = id THEN ApplySet(r, set) ELSE r : r \in st}]

\* (mutant) a delete that counts the row but leaves it in the table
DeleteRowsKeeping(st, id) ==
    [store |-> st, affected |-> Cardinality({r \in st : r.id = id})]

\* Repository.delete(id): [store, affected]
DeleteRows(st, id) ==
    [store |-> {r \in st : r.id # id},
     affected |-> Cardinality({r \in st : r.id = id})]

\* ------------------------------------------------------------ repository
NoIndex == 0 - 1
Msg(text) == [text |-> text, index |-> NoIndex]
MsgAt(text, i) == [text |-> text, index |-> i]

\* what a repository call gave back
RetNone == [kind |-> "none"]
RetNull == [kind |-> "null"]
RetEntity(row) == [kind |-> "entity", row |-> row]
RetList(rows) == [kind |-> "list", rows |-> rows]
RetBool(b) == [kind |-> "bool", b |-> b]
\* new Error(msg): a plain Error carries no statusCode (0 stands for none)
RetThrow(text) == [kind |-> "throw", msg |-> Msg(text), statusCode |-> 0]

\* !x.name?.trim(): "falsy" when the name is missing or blank, "typeerror"
\* when it is not a string (trim is not a function), "ok" otherwise
NameCheck(name) ==
    CASE name.t = "undefined" -> "falsy"
      [] name.t = "string" -> IF Trim(name.v) = <<>> THEN "falsy" ELSE "ok"
      [] OTHER -> "typeerror"

\* typeof x.value !== 'number' || x.value < 0
BadValue(value) == value.t # "number" \/ value.v < 0

\* ResourceRepository.create: [ret, store, seq]
RepoCreate(st, sq, data, t) ==
    CASE NameCheck(data.name) = "typeerror" ->
            [ret |-> RetThrow("TypeError"), store |-> st, seq |-> sq]
      [] NameCheck(data.name) = "falsy" ->
            [ret |-> RetThrow("Resource name is required"), store |-> st, seq |-> sq]
      [] NameCheck(data.name) = "ok" /\ BadValue(data.value) ->
            [ret |-> RetThrow("Resource value must be a non-negative number"),
             store |-> st, seq |-> sq]
      [] OTHER ->
            LET ent == [name |-> Str(Trim(data.name.v)), value |-> data.value,
                        status |-> data.status, type |-> data.type,
                        createdAt |-> t, updatedAt |-> t]
                ins == InsertAll(st, sq, <<ent>>)
            IN IF ins.ok
               THEN [ret |-> RetEntity(ins.rows[1]), store |-> ins.store, seq |-> ins.seq]
               ELSE [ret |-> RetThrow("Failed to create resource"),
                     store |-> st, seq |-> sq]

\* !Number.isInteger(id) || id <= 0
InvalidId(id) == id <= 0

\* (mutant) a findById that raises an error when no row has the id
RepoFindByIdThrowing(st, id) ==
    IF InvalidId(id) THEN [ret |-> RetThrow("Invalid resource ID")]
    ELSE LET f == FindOne(st, id)
         IN [ret |-> IF f.found THEN RetEntity(f.row)
                     ELSE RetThrow("Resource not found")]

\* ResourceRepository.findById: [ret]
RepoFindById(st, id) ==
    IF InvalidId(id) THEN [ret |-> RetThrow("Invalid resource ID")]
    ELSE LET f == FindOne(st, id)
         IN [ret |-> IF f.found THEN RetEntity(f.row) ELSE RetNull]

\* (mutant) a delete that reports success whether or not a row was removed
RepoDeleteReportingSuccess(st, id) ==
    IF InvalidId(id) THEN [ret |-> RetThrow("Invalid resource ID"), store |-> st]
    ELSE [ret |-> RetBool(TRUE), store |-> {r \in st : r.id # id}]

\* ResourceRepository.delete: [ret, store]
RepoDelete(st, id) ==
    IF InvalidId(id) THEN [ret |-> RetThrow("Invalid resource ID"), store |-> st]
    ELSE LET d == DeleteRows(st, id)
         IN [ret |-> RetBool(d.affected > 0), store |-> d.store]

\* updateData.name !== undefined && !updateData.name.trim()
PatchNameCheck(name) == IF IsUndefined(name) THEN "ok" ELSE NameCheck(name)

\* updateData.value !== undefined && (typeof ... !== 'number' || ... < 0)
PatchBadValue(value) == ~IsUndefined(value) /\ BadValue(value)

\* (mutant) a SET clause that fills an omitted status and type with the
\* defaults, as the create handler does
SanitizedDataDefaulting(upd, t) ==
    [name |-> IF IsUndefined(upd.name) THEN Undefined ELSE Str(Trim(upd.name.v)),
     value |-> upd.value,
     status |-> OrDefault(upd.status, DefaultStatus),
     type |-> OrDefault(upd.type, DefaultType),
     updatedAt |-> t]

\* the SET clause update() builds from the patch: only the four fields it
\* copies, the name trimmed, and updatedAt
SanitizedData(upd, t) ==
    [name |-> IF IsUndefined(upd.name) THEN Undefined ELSE Str(Trim(upd.name.v)),
     value |-> upd.value,
     status |-> upd.status,
     type |-> upd.type,
     updatedAt |-> t]

\* ResourceRepository.update: [ret, store]
RepoUpdate(st, id, upd, t) ==
    CASE InvalidId(id) -> [ret |-> RetThrow("Invalid resource ID"), store |-> st]
      [] ~InvalidId(id) /\ PatchNameCheck(upd.name) = "typeerror" ->
            [ret |-> RetThrow("TypeError"), store |-> st]
      [] ~InvalidId(id) /\ PatchNameCheck(upd.name) = "falsy" ->
            [ret |-> RetThrow("Resource name cannot be empty"), store |-> st]
      [] ~InvalidId(id) /\ PatchNameCheck(upd.name) = "ok" /\ PatchBadValue(upd.value) ->
            [ret |-> RetThrow("Resource value must be a non-negative number"),
             store |-> st]
      [] OTHER ->
            IF ~FindOne(st, id).found THEN [ret |-> RetNull, store |-> st]
            ELSE LET u == UpdateRows(st, id, SanitizedData(upd, t))
                     f == FindOne(u.store, id)
                 IN IF ~u.ok
                    THEN [ret |-> RetThrow("Failed to update resource"), store |-> st]
                    ELSE [ret |-> IF f.found THEN RetEntity(f.row) ELSE RetNull,
                          store |-> u.store]

\* indices (1-based) of the elements of a bulk list that fail a check
BadNameAt(list) == {i \in 1..Len(list) : NameCheck(list[i].name) # "ok"}
BadValueAt(list) == {i \in 1..Len(list) : BadValue(list[i].value)}
Min(S) == CHOOSE x \in S : \A y \in S : x <= y

\* ResourceRepository.bulkCreate: [ret, store, seq]
RepoBulkCreate(st, sq, list, t) ==
    LET bad == BadNameAt(list) \cup BadValueAt(list)
        first == Min(bad)
        ents == [i \in 1..Len(list) |->
                    [name |-> Str(Trim(list[i].name.v)), value |-> list[i].value,
                     status |-> list[i].status, type |-> list[i].type,
                     createdAt |-> t, updatedAt |-> t]]
        ins == InsertAll(st, sq, ents)
    IN CASE Len(list) = 0 ->
               [ret |-> RetThrow("Resources array is required and cannot be empty"),
                store |-> st, seq |-> sq]
         [] Len(list) > 0 /\ bad # {} ->
               [ret |-> RetThrow(
                    IF NameCheck(list[first].name) = "typeerror" THEN "TypeError"
                    ELSE IF first \in BadNameAt(list)
                         THEN "All resources must have a valid name"
                         ELSE "All resources must have a valid non-negative value"),
                store |-> st, seq |-> sq]
         [] OTHER ->
               IF ins.ok
               THEN [ret |-> RetList(ins.rows), store |-> ins.store, seq |-> ins.seq]
               ELSE [ret |-> RetThrow("Failed to bulk create resources"),
                     store |-> st, seq |-> sq]

\* the filters object findAll receives
Filters(status, type, minValue, maxValue, createdAfter, createdBefore) ==
    [status |-> status, type |-> type, minValue |-> minValue, maxValue |-> maxValue,
     createdAfter |-> createdAfter, createdBefore |-> createdBefore]

\* thousandths in one unit of `value`
Scale == 10 * 100

\* the WHERE clause findAll builds: one andWhere per filter that is set
Where(r, f) ==
    /\ Falsy(f.status) \/ r.status = f.status.v
    /\ Falsy(f.type) \/ r.type = f.type.v
    /\ f.minValue.t # "number" \/ r.value >= f.minValue.v * Scale
    /\ f.maxValue.t # "number" \/ r.value <= f.maxValue.v * Scale
    /\ IsUndefined(f.createdAfter) \/ r.createdAt >= f.createdAfter.v
    /\ IsUndefined(f.createdBefore) \/ r.createdAt <= f.createdBefore.v

\* Math.ceil(a / b) for a >= 0, b > 0
Ceil(a, b) == (a + b - 1) \div b

\* (mutant) the table in ORDER BY createdAt ASC
IsOrderByCreatedAtAsc(order, st) ==
    /\ Len(order) = Cardinality(st)
    /\ {order[i] : i \in 1..Len(order)} = st
    /\ \A i, j \in 1..Len(order) : i < j => order[i].createdAt <= order[j].createdAt

\* is `order` (a sequence of rows) the table in ORDER BY createdAt DESC;
\* rows of equal createdAt come in any order
IsOrderByCreatedAtDesc(order, st) ==
    /\ Len(order) = Cardinality(st)
    /\ {order[i] : i \in 1..Len(order)} = st
    /\ \A i, j \in 1..Len(order) : i < j => order[i].createdAt >= order[j].createdAt

RECURSIVE SelectSeq2(_, _)
\* the rows of `order` that satisfy the WHERE clause of f, in order
SelectSeq2(order, f) ==
    IF order = <<>> THEN <<>>
    ELSE IF Where(Head(order), f) THEN <<Head(order)>> \o SelectSeq2(Tail(order), f)
    ELSE SelectSeq2(Tail(order), f)

\* (mutant) a take that runs one row past the limit
SkipTakeInclusive(rows, offset, limit) ==
    SubSeq(rows, offset + 1,
           IF offset + limit + 1 < Len(rows) THEN offset + limit + 1 ELSE Len(rows))

\* skip(offset).take(limit) on a result list
SkipTake(rows, offset, limit) ==
    SubSeq(rows, offset + 1, IF offset + limit < Len(rows) THEN offset + limit ELSE Len(rows))

MaxLimit == 100
DefaultLimit == 20
DefaultPage == 1

\* a JavaScript number argument: the integer n, or the non-integer n + 0.5
JsInt(n) == [int |-> TRUE, n |-> n]
JsHalf(n) == [int |-> FALSE, n |-> n]
\* Number.isInteger(x)
IsInteger(x) == x.int

\* (mutant) a findAll that brings the page and the limit into range instead
\* of refusing them
RepoFindAllClamping(order, f, page, limit) ==
    LET p == IF page.n < 1 THEN 1 ELSE page.n
        l == IF limit.n < 1 THEN 1 ELSE IF limit.n > MaxLimit THEN MaxLimit ELSE limit.n
        hits == SelectSeq2(order, f)
        total == Len(hits)
    IN [ret |-> [kind |-> "page",
                 resources |-> SkipTake(hits, (p - 1) * l, l),
                 total |-> total,
                 page |-> p,
                 totalPages |-> Ceil(total, l)]]

\* ResourceRepository.findAll; `order` is the order in which the engine
\* delivers the table for ORDER BY createdAt DESC: [ret]
RepoFindAll(order, f, page, limit) ==
    IF ~IsInteger(page) \/ page.n < 1
    THEN [ret |-> RetThrow("Page must be a positive integer")]
    ELSE IF ~IsInteger(limit) \/ limit.n < 1 \/ limit.n > MaxLimit
    THEN [ret |-> RetThrow("Limit must be between 1 and 100")]
    ELSE LET hits == SelectSeq2(order, f)
             total == Len(hits)
         IN [ret |-> [kind |-> "page",
                      resources |-> SkipTake(hits, (page.n - 1) * limit.n, limit.n),
                      total |-> total,
                      page |-> page.n,
                      totalPages |-> Ceil(total, limit.n)]]

\* ------------------------------------------------------------ controller
\* res.status(code).json({ error: '<text>' })
BodyError(msg) == [kind |-> "error", msg |-> msg]
\* res.json({ message?, data })
BodyData(data) == [kind |-> "data", data |-> data]
BodyMessage(text) == [kind |-> "message", msg |-> Msg(text)]

\* errorHandler: the status is err.statusCode || 500 and the body is the
\* envelope { error: { message, statusCode, timestamp } }
ErrorHandler(err, t) ==
    LET statusCode == IF err.statusCode # 0 THEN err.statusCode ELSE 500
    IN [status |-> statusCode,
        body |-> [kind |-> "envelope", msg |-> err.msg,
                  statusCode |-> statusCode, timestamp |-> t]]

\* toResourceResponse
ToResourceResponse(row) ==
    [id |-> row.id, name |-> row.name, description |-> row.description,
     type |-> row.type, status |-> row.status, value |-> row.value,
     createdAt |-> row.createdAt, updatedAt |-> row.updatedAt,
     metadata |-> row.metadata]

\* a handler's outcome
Answer(status, body, ret, st, sq) ==
    [status |-> status, body |-> body, ret |-> ret, store |-> st, seq |-> sq]

\* catch (error) { next(error) }: the thrown error reaches errorHandler
Forward(ret, st, sq, t) ==
    Answer(ErrorHandler(ret, t).status, ErrorHandler(ret, t).body, ret, st, sq)

\* ResourceController.createResource
CreateResourceHandler(st, sq, body, t) ==
    CASE NameCheck(body.name) = "typeerror" ->
            Forward(RetThrow("TypeError"), st, sq, t)
      [] NameCheck(body.name) = "falsy" ->
            Answer(400, BodyError(Msg("Resource name is required")), RetNone, st, sq)
      [] NameCheck(body.name) = "ok" /\ BadValue(body.value) ->
            Answer(400, BodyError(Msg("Resource value must be a non-negative number")),
                   RetNone, st, sq)
      [] OTHER ->
            LET r == RepoCreate(st, sq,
                        [name |-> Str(Trim(body.name.v)), value |-> body.value,
                         status |-> OrDefault(body.status, DefaultStatus),
                         type |-> OrDefault(body.type, DefaultType)], t)
            IN IF r.ret.kind = "throw" THEN Forward(r.ret, st, sq, t)
               ELSE Answer(201, BodyData(ToResourceResponse(r.ret.row)),
                           r.ret, r.store, r.seq)

\* the handlers' common prologue on req.params.id
IdProblem(idStr) ==
    IF idStr = <<>> THEN "Resource ID is required"
    ELSE IF ParseInt(idStr).nan THEN "Invalid resource ID format"
    ELSE "none"

\* ResourceController.getResourceById
GetResourceByIdHandler(st, sq, idStr, t) ==
    IF IdProblem(idStr) # "none"
    THEN Answer(400, BodyError(Msg(IdProblem(idStr))), RetNone, st, sq)
    ELSE LET r == RepoFindById(st, ParseInt(idStr).n)
         IN CASE r.ret.kind = "throw" -> Forward(r.ret, st, sq, t)
              [] r.ret.kind = "null" ->
                    Answer(404, BodyError(Msg("Resource not found")), r.ret, st, sq)
              [] OTHER ->
                    Answer(200, BodyData(ToResourceResponse(r.ret.row)), r.ret, st, sq)

\* ResourceController.updateResource
UpdateResourceHandler(st, sq, idStr, body, t) ==
    CASE IdProblem(idStr) # "none" ->
            Answer(400, BodyError(Msg(IdProblem(idStr))), RetNone, st, sq)
      [] IdProblem(idStr) = "none" /\ PatchNameCheck(body.name) = "typeerror" ->
            Forward(RetThrow("TypeError"), st, sq, t)
      [] IdProblem(idStr) = "none" /\ PatchNameCheck(body.name) = "falsy" ->
            Answer(400, BodyError(Msg("Resource name cannot be empty")), RetNone, st, sq)
      [] IdProblem(idStr) = "none" /\ PatchNameCheck(body.name) = "ok"
            /\ PatchBadValue(body.value) ->
            Answer(400, BodyError(Msg("Resource value must be a non-negative number")),
                   RetNone, st, sq)
      [] OTHER ->
            LET r == RepoUpdate(st, ParseInt(idStr).n, body, t)
            IN CASE r.ret.kind = "throw" -> Forward(r.ret, st, sq, t)
                 [] r.ret.kind = "null" ->
                       Answer(404, BodyError(Msg("Resource not found")), r.ret, r.store, sq)
                 [] OTHER ->
                       Answer(200, BodyData(ToResourceResponse(r.ret.row)),
                              r.ret, r.store, sq)

\* ResourceController.deleteResource
DeleteResourceHandler(st, sq, idStr, t) ==
    IF IdProblem(idStr) # "none"
    THEN Answer(400, BodyError(Msg(IdProblem(idStr))), RetNone, st, sq)
    ELSE LET r == RepoDelete(st, ParseInt(idStr).n)
         IN CASE r.ret.kind = "throw" -> Forward(r.ret, st, sq, t)
              [] r.ret.kind = "bool" /\ ~r.ret.b ->
                    Answer(404, BodyError(Msg("Resource not found")), r.ret, r.store, sq)
              [] OTHER ->
                    Answer(200, BodyMessage("Resource deleted successfully"),
                           r.ret, r.store, sq)

\* (mutant) a bulk handler that saves each element as soon as it has passed
\* the checks: the elements before the first invalid one are persisted
BulkCreateResourcesHandlerSavingAsItGoes(st, sq, list, t) ==
    LET bad == BadNameAt(list) \cup BadValueAt(list)
        first == Min(bad)
        entry(i) == [name |-> Str(Trim(list[i].name.v)),
                     value |-> list[i].value,
                     status |-> OrDefault(list[i].status, DefaultStatus),
                     type |-> OrDefault(list[i].type, DefaultType)]
        before == RepoBulkCreate(st, sq, [i \in 1..(first - 1) |-> entry(i)], t)
        kept == IF first > 1 /\ before.ret.kind = "list" THEN before
                ELSE [ret |-> RetNone, store |-> st, seq |-> sq]
    IN CASE Len(list) = 0 ->
               Answer(400,
                      BodyError(Msg("Resources array is required and cannot be empty")),
                      RetNone, st, sq)
         [] Len(list) > 0 /\ bad # {} ->
               IF NameCheck(list[first].name) = "typeerror"
               THEN Forward(RetThrow("TypeError"), kept.store, kept.seq, t)
               ELSE Answer(400,
                      BodyError(IF first \in BadNameAt(list)
                                THEN MsgAt("must have a valid name", first - 1)
                                ELSE MsgAt("must have a valid non-negative value",
                                           first - 1)),
                      kept.ret, kept.store, kept.seq)
         [] OTHER ->
               LET r == RepoBulkCreate(st, sq, [i \in 1..Len(list) |-> entry(i)], t)
               IN IF r.ret.kind = "throw" THEN Forward(r.ret, st, sq, t)
                  ELSE Answer(201,
                         BodyData([i \in 1..Len(r.ret.rows) |->
                                      ToResourceResponse(r.ret.rows[i])]),
                         r.ret, r.store, r.seq)

\* ResourceController.bulkCreateResources (the body's `resources` is an
\* array here; a non-array is answered like the empty one)
BulkCreateResourcesHandler(st, sq, list, t) ==
    LET bad == BadNameAt(list) \cup BadValueAt(list)
        first == Min(bad)
    IN CASE Len(list) = 0 ->
               Answer(400,
                      BodyError(Msg("Resources array is required and cannot be empty")),
                      RetNone, st, sq)
         [] Len(list) > 0 /\ bad # {} ->
               IF NameCheck(list[first].name) = "typeerror"
               THEN Forward(RetThrow("TypeError"), st, sq, t)
               ELSE Answer(400,
                      BodyError(IF first \in BadNameAt(list)
                                THEN MsgAt("must have a valid name", first - 1)
                                ELSE MsgAt("must have a valid non-negative value",
                                           first - 1)),
                      RetNone, st, sq)
         [] OTHER ->
               LET r == RepoBulkCreate(st, sq,
                           [i \in 1..Len(list) |->
                               [name |-> Str(Trim(list[i].name.v)),
                                value |-> list[i].value,
                                status |-> OrDefault(list[i].status, DefaultStatus),
                                type |-> OrDefault(list[i].type, DefaultType)]], t)
               IN IF r.ret.kind = "throw" THEN Forward(r.ret, st, sq, t)
                  ELSE Answer(201,
                         BodyData([i \in 1..Len(r.ret.rows) |->
                                      ToResourceResponse(r.ret.rows[i])]),
                         r.ret, r.store, r.seq)

\* new Date(s) of a query value: the inputs write a date as "T" followed by
\* the digit of its clock value; anything else is an Invalid Date
ParseDate(s) ==
    IF Len(s) = 2 /\ s[1] = "T" /\ s[2] \in Digits
    THEN [valid |-> TRUE, time |-> DigitVal(s[2])]
    ELSE [valid |-> FALSE, time |-> 0]

\* a label of the query kept only if the enumeration includes it
EnumFilter(x, labels) ==
    IF ~Falsy(x) /\ x.v \in labels THEN x ELSE Undefined

\* minValue && !isNaN(Number(minValue))
NumberFilter(x) ==
    IF ~FalsyText(x) /\ ~ToNumber(x.v).nan THEN Num(ToNumber(x.v).n) ELSE Undefined

DateFilter(x) ==
    IF ~FalsyText(x) /\ ParseDate(x.v).valid THEN Num(ParseDate(x.v).time) ELSE Undefined

\* the filters getAllResources builds from req.query
BuildFilters(q) ==
    Filters(EnumFilter(q.status, ResourceStatus), EnumFilter(q.type, ResourceType),
            NumberFilter(q.minValue), NumberFilter(q.maxValue),
            DateFilter(q.createdAfter), DateFilter(q.createdBefore))

\* parseInt(x, 10) || dflt, x defaulting to the text of dflt when absent
ParseOr(x, dflt) ==
    IF IsUndefined(x) THEN dflt
    ELSE IF ParseInt(x.v).nan \/ ParseInt(x.v).n = 0 THEN dflt
    ELSE ParseInt(x.v).n

Max2(a, b) == IF a >= b THEN a ELSE b
Min2(a, b) == IF a <= b THEN a ELSE b

\* Math.max(1, parseInt(page) || 1)
PageNum(q) == Max2(1, ParseOr(q.page, DefaultPage))
\* Math.min(100, Math.max(1, parseInt(limit) || 20))
LimitNum(q) == Min2(MaxLimit, Max2(1, ParseOr(q.limit, DefaultLimit)))

\* ResourceController.getAllResources
GetAllResourcesHandler(st, sq, q, order, t) ==
    LET r == RepoFindAll(order, BuildFilters(q), JsInt(PageNum(q)), JsInt(LimitNum(q)))
    IN IF r.ret.kind = "throw" THEN Forward(r.ret, st, sq, t)
       ELSE Answer(200,
                [kind |-> "page",
                 data |-> [i \in 1..Len(r.ret.resources) |->
                              ToResourceResponse(r.ret.resources[i])],
                 pagination |-> [page |-> r.ret.page, limit |-> LimitNum(q),
                                 total |-> r.ret.total,
                                 totalPages |-> r.ret.totalPages]],
                r.ret, st, sq)

\* ---------------------------------------------------------------- inputs
Body(name, value, status, type) ==
    [name |-> name, value |-> value, status |-> status, type |-> type]

NameInputs ==
    {Undefined, Num(7), Str(<<>>), Str(<<" ">>), Str(<<"a">>), Str(<<" ", "b", " ">>)}
ValueInputs == {Undefined, Str(<<"5">>), Num(0), Num(5), Num(0 - 5)}

\* bodies of POST /resources: every name and every value around a valid
\* body, a body that supplies every field, and bodies with a label that is
\* in neither enumeration
CreateBodies ==
    {Body(n, Num(0), Undefined, Undefined) : n \in NameInputs}
        \cup {Body(Str(<<"a">>), v, Undefined, Undefined) : v \in ValueInputs}
        \cup {Body(Str(<<" ", "b", " ">>), Num(5), Str("archived"), Str("image")),
              Body(Str(<<"a">>), Num(0), Str("bogus"), Undefined),
              Body(Str(<<"a">>), Num(0), Undefined, Str("bogus"))}

\* elements of a bulk request: a valid one, and one for each way an
\* element can fail the handler's checks
BulkElements ==
    {Body(Str(<<"a">>), Num(0), Undefined, Undefined),
     Body(Str(<<" ">>), Num(0), Undefined, Undefined),
     Body(Str(<<"a">>), Num(0 - 5), Undefined, Undefined),
     Body(Num(7), Num(0 - 5), Undefined, Undefined)}

\* the lists of at most MaxBulk elements, and one whose second element the
\* table rejects after the first was inserted
BulkLists ==
    UNION {[1..n -> BulkElements] : n \in 0..MaxBulk}
        \cup {<<Body(Str(<<"a">>), Num(0), Undefined, Undefined),
                Body(Str(<<"b", " ">>), Num(5), Str("bogus"), Undefined)>>}

\* bodies of PUT /resources/:id: the empty patch, a patch of every field,
\* and patches one field of which is not acceptable
PatchBodies ==
    {Body(Undefined, Undefined, Undefined, Undefined),
     Body(Str(<<"b", " ">>), Num(5), Str("archived"), Str("image")),
     Body(Str(<<" ">>), Undefined, Undefined, Undefined),
     Body(Num(7), Undefined, Undefined, Undefined),
     Body(Undefined, Num(0 - 5), Undefined, Undefined),
     Body(Str(<<"b">>), Undefined, Str("bogus"), Undefined),
     Body(Undefined, Undefined, Undefined, Str("bogus"))}

DigitChar(n) ==
    CASE n = 0 -> "0" [] n = 1 -> "1" [] n = 2 -> "2" [] n = 3 -> "3"
      [] n = 4 -> "4" [] n = 5 -> "5" [] n = 6 -> "6" [] n = 7 -> "7"
      [] n = 8 -> "8" [] n = 9 -> "9"

\* values of the :id path parameter
IdInputs ==
    {<<DigitChar(i)>> : i \in 0..(MaxId + 1)} \cup {<<"x">>, <<"2", "x">>}

\* requests PUT /resources/:id: the empty and the full patch on every id,
\* every patch on id 1
UpdateInputs ==
    {[id |-> i, body |-> b] : i \in IdInputs,
        b \in {Body(Undefined, Undefined, Undefined, Undefined),
               Body(Str(<<"b", " ">>), Num(5), Str("archived"), Str("image"))}}
        \cup {[id |-> <<"1">>, body |-> b] : b \in PatchBodies}

Query(status, type, minValue, maxValue, createdAfter, createdBefore, page, limit) ==
    [status |-> status, type |-> type, minValue |-> minValue, maxValue |-> maxValue,
     createdAfter |-> createdAfter, createdBefore |-> createdBefore,
     page |-> page, limit |-> limit]

PageInputs == {Undefined, Str(<<"0">>), Str(<<"2">>), Str(<<"3">>), Str(<<"x">>)}
LimitInputs ==
    {Undefined, Str(<<"0">>), Str(<<"1">>), Str(<<"2">>), Str(<<"1", "0", "1">>),
     Str(<<"-", "1">>)}

\* query strings of GET /resources: every page with every limit, and each
\* filter alone and paired with another, on the first page and on page 2 of
\* limit 1
FilterInputs ==
    {Query(st, ty, Undefined, Undefined, Undefined, Undefined, Undefined, Undefined) :
        st \in {Undefined, Str("archived"), Str("bogus")},
        ty \in {Undefined, Str("other")}}
      \cup
    {Query(Undefined, Undefined, mn, mx, Undefined, Undefined, Undefined, Undefined) :
        mn \in {Undefined, Str(<<"0">>), Str(<<"1">>), Str(<<"x">>)},
        mx \in {Undefined, Str(<<"0">>)}}
      \cup
    {Query(Undefined, Undefined, Undefined, Undefined, ca, cb, Undefined, Undefined) :
        ca \in {Undefined, Str(<<"T", "1">>), Str(<<"x">>)},
        cb \in {Undefined, Str(<<"T", "0">>)}}

QueryInputs ==
    {[q EXCEPT !.page = pg, !.limit = lm] :
        q \in {Query(Undefined, Undefined, Undefined, Undefined, Undefined, Undefined,
                     Undefined, Undefined)},
        pg \in PageInputs, lm \in LimitInputs}
      \cup FilterInputs
      \cup {[q EXCEPT !.page = Str(<<"2">>), !.limit = Str(<<"1">>)] : q \in FilterInputs}

\* the times a request starting at `now` may read from the clock
Times == {t \in now..(now + 1) : t <= MaxTime}

\* ----------------------------------------------------------- state machine
NoRequest ==
    [op |-> "none", req |-> <<>>, status |-> 0, body |-> BodyMessage("none"),
     ret |-> RetNone]

Init ==
    /\ store = {}
    /\ seq = 0
    /\ now = 0
    /\ resp = NoRequest
    /\ created = {}
    /\ deleted = {}
    /\ supplied = {}
    /\ limiter = [made |-> FALSE, maxRequests |-> 0, windowMs |-> 0, requests |-> <<>>]
    /\ passed = <<>>
    /\ server = [process |-> "loaded", exitCode |-> 0, listening |-> FALSE,
                 isConnected |-> FALSE, isInitialized |-> FALSE, pending |-> 0,
                 connections |-> 0]
    /\ calls = <<>>

\* the table and the sequence stay inside the model's bounds
WithinBounds(a) == Cardinality(a.store) <= MaxRows /\ a.seq <= MaxId

Respond(op, req, a) ==
    resp' = [op |-> op, req |-> req, status |-> a.status, body |-> a.body,
             ret |-> a.ret]

\* POST /resources
CreateResourceOf(bodies) ==
    \E body \in bodies, t \in Times :
        \E a \in {CreateResourceHandler(store, seq, body, t)} :
           /\ WithinBounds(a)
           /\ store' = a.store
           /\ seq' = a.seq
           /\ now' = t
           /\ Respond("create", body, a)
           /\ created' = IF a.status = 201 THEN created \cup {a.ret.row.id}
                         ELSE created
           /\ supplied' = IF a.status = 201
                          THEN supplied \cup {[id |-> a.ret.row.id, body |-> body]}
                          ELSE supplied
           /\ UNCHANGED <<deleted, aside>>

\* POST /resources/bulk
BulkCreateResources ==
    \E list \in BulkLists, t \in Times :
        \E a \in {BulkCreateResourcesHandler(store, seq, list, t)} :
           /\ WithinBounds(a)
           /\ store' = a.store
           /\ seq' = a.seq
           /\ now' = t
           /\ Respond("bulk", list, a)
           /\ created' = IF a.status = 201
                         THEN created \cup {a.ret.rows[i].id : i \in 1..Len(a.ret.rows)}
                         ELSE created
           /\ UNCHANGED <<deleted, supplied, aside>>

\* GET /resources/:id
GetResourceById ==
    \E idStr \in IdInputs, t \in Times :
        \E a \in {GetResourceByIdHandler(store, seq, idStr, t)} :
           /\ store' = a.store
           /\ seq' = a.seq
           /\ now' = t
           /\ Respond("getById", idStr, a)
           /\ UNCHANGED <<created, deleted, supplied, aside>>

\* PUT /resources/:id
UpdateResourceOf(inputs) ==
    \E rq \in inputs, t \in Times :
        \E a \in {UpdateResourceHandler(store, seq, rq.id, rq.body, t)} :
           /\ store' = a.store
           /\ seq' = a.seq
           /\ now' = t
           /\ Respond("update", rq, a)
           /\ supplied' = IF a.ret.kind = "entity"
                          THEN {p \in supplied : p.id # a.ret.row.id}
                          ELSE supplied
           /\ UNCHANGED <<created, deleted, aside>>

\* DELETE /resources/:id
DeleteResourceOf(ids) ==
    \E idStr \in ids, t \in Times :
        \E a \in {DeleteResourceHandler(store, seq, idStr, t)} :
           /\ store' = a.store
           /\ seq' = a.seq
           /\ now' = t
           /\ Respond("delete", idStr, a)
           /\ deleted' = IF a.ret.kind = "bool" /\ a.ret.b
                         THEN deleted \cup {ParseInt(idStr).n}
                         ELSE deleted
           /\ supplied' = IF a.ret.kind = "bool" /\ a.ret.b
                          THEN {p \in supplied : p.id # ParseInt(idStr).n}
                          ELSE supplied
           /\ UNCHANGED <<created, aside>>

\* GET /resources
GetAllResources ==
    \E q \in QueryInputs, t \in Times :
        \E order \in {o \in UNION {[1..n -> store] : n \in {Cardinality(store)}} :
                          IsOrderByCreatedAtDesc(o, store)} :
        \E a \in {GetAllResourcesHandler(store, seq, q, order, t)} :
           /\ store' = a.store
           /\ seq' = a.seq
           /\ now' = t
           /\ Respond("getAll",
                      [query |-> q, filters |-> BuildFilters(q), page |-> PageNum(q),
                       limit |-> LimitNum(q)], a)
           /\ UNCHANGED <<created, deleted, supplied, aside>>

CreateResource == CreateResourceOf(CreateBodies)
UpdateResource == UpdateResourceOf(UpdateInputs)
DeleteResource == DeleteResourceOf(IdInputs)

Next ==
    \/ CreateResource
    \/ BulkCreateResources
    \/ GetResourceById
    \/ UpdateResource
    \/ DeleteResource

Spec == Init /\ [][Next]_vars

\* the listing endpoint over tables that a few creations, updates and
\* deletions build
QueryCreateBodies ==
    {Body(Str(<<"a">>), Num(0), Undefined, Undefined),
     Body(Str(<<"a">>), Num(5), Undefined, Undefined),
     Body(Str(<<"b">>), Num(5), Str("archived"), Str("image"))}

QueryUpdateInputs ==
    {[id |-> <<"1">>,
      body |-> Body(Str(<<"b">>), Num(5), Str("archived"), Str("image"))]}

CreateForQuery == CreateResourceOf(QueryCreateBodies)
UpdateForQuery == UpdateResourceOf(QueryUpdateInputs)
DeleteForQuery == DeleteResourceOf({<<"1">>})

NextQuery ==
    \/ CreateForQuery
    \/ UpdateForQuery
    \/ DeleteForQuery
    \/ GetAllResources

SpecQuery == Init /\ [][NextQuery]_vars

\* status changes: resources created archived, then patched with each status
StatusCreateBodies == {Body(Str(<<"a">>), Num(0), Str("archived"), Undefined)}
StatusUpdateInputs ==
    {[id |-> i, body |-> Body(Undefined, Undefined, Str(st), Undefined)] :
        i \in {<<"1">>, <<"2">>}, st \in ResourceStatus}

CreateForStatus == CreateResourceOf(StatusCreateBodies)
UpdateStatus == UpdateResourceOf(StatusUpdateInputs)
DeleteForStatus == DeleteResourceOf({<<"1">>})

NextStatus ==
    \/ CreateForStatus
    \/ UpdateStatus
    \/ DeleteForStatus

SpecStatus == Init /\ [][NextStatus]_vars

\* the repository's findAll called directly, with pages and limits in and
\* out of range, whole and not
PageArgs == {JsInt(0 - 1), JsInt(0), JsInt(1), JsInt(2), JsHalf(1)}
LimitArgs ==
    {JsInt(0 - 1), JsInt(0), JsInt(1), JsInt(2), JsInt(MaxLimit), JsInt(MaxLimit + 1),
     JsHalf(1), JsHalf(MaxLimit)}
FilterArgs ==
    {Filters(Undefined, Undefined, Undefined, Undefined, Undefined, Undefined),
     Filters(Str("archived"), Undefined, Undefined, Undefined, Undefined, Undefined)}

\* resourceRepository.findAll(filters, page, limit)
RepoFindAllCall ==
    \E f \in FilterArgs, page \in PageArgs, limit \in LimitArgs :
        \E order \in {o \in UNION {[1..n -> store] : n \in {Cardinality(store)}} :
                          IsOrderByCreatedAtDesc(o, store)} :
        \E a \in {RepoFindAll(order, f, page, limit)} :
           /\ resp' = [op |-> "findAll",
                       req |-> [filters |-> f, page |-> page, limit |-> limit],
                       status |-> 0, body |-> BodyMessage("none"), ret |-> a.ret]
           /\ UNCHANGED <<store, seq, now, created, deleted, supplied, aside>>

NextFindAll ==
    \/ CreateForQuery
    \/ DeleteForQuery
    \/ RepoFindAllCall

SpecFindAll == Init /\ [][NextFindAll]_vars

\* ------------------------------------------------------- problem 4: sum to n
\* An argument of sum_to_n_*: Num(n) is the integer n; the other numbers are
\* 1.5-like fractions (Fraction(n) is n + 0.5), NaN, Infinity and
\* Number.MAX_SAFE_INTEGER + 1 (every integer the model counts with is below
\* it); the rest are values that are not numbers.
MaxN == 80

Fraction(n) == [t |-> "fraction", v |-> n]
NotANumber == [t |-> "NaN", v |-> 0]
Infinity == [t |-> "Infinity", v |-> 0]
AboveMaxSafe == [t |-> "aboveMaxSafe", v |-> 0]
NullValue == [t |-> "null", v |-> 0]
ArrayValue == [t |-> "array", v |-> 0]
ObjectValue == [t |-> "object", v |-> 0]

\* Number.isInteger(x)
IsIntegerNumber(x) == x.t \in {"number", "aboveMaxSafe"}
\* x < 0, for x an integer
IsNegative(x) == x.t = "number" /\ x.v < 0
\* x > Number.MAX_SAFE_INTEGER, for x an integer
ExceedsMaxSafe(x) == x.t = "aboveMaxSafe"

\* Maximum recursion depth to prevent stack overflow
MAX_RECURSION_DEPTH == 10000
\* Math.floor(Math.sqrt(2 * Number.MAX_SAFE_INTEGER))
SqrtOfTwiceMaxSafe == 134217727

\* a returned number
RetValue(n) == [kind |-> "number", n |-> n]

RECURSIVE IterativeLoop(_, _, _)
\* for (let i = 1; i <= n; i++) { overflow check; sum += i }
IterativeLoop(n, i, sum) ==
    IF i > n THEN RetValue(sum)
    ELSE IF ExceedsMaxSafe(Num(sum + i))
         THEN RetThrow("Result exceeds maximum safe integer")
    ELSE IterativeLoop(n, i + 1, sum + i)

\* (mutant) an iterative sum that answers 0 for a negative input and runs
\* its loop on whatever else it is given
sumToNIterativeLenient(x) ==
    IF IsNegative(x) THEN RetValue(0)
    ELSE IF x.t \in {"number", "fraction"} THEN IterativeLoop(x.v, 1, 0)
    ELSE RetValue(0)

sumToNIterative(x) ==
    IF ~IsIntegerNumber(x) THEN RetThrow("Input must be an integer")
    ELSE IF IsNegative(x) THEN RetThrow("Input must be non-negative")
    ELSE IF ExceedsMaxSafe(x) THEN RetThrow("Input exceeds maximum safe integer")
    ELSE IF x.v = 0 THEN RetValue(0)
    ELSE IF x.v = 1 THEN RetValue(1)
    ELSE IterativeLoop(x.v, 1, 0)

sumToNFormula(x) ==
    IF ~IsIntegerNumber(x) THEN RetThrow("Input must be an integer")
    ELSE IF IsNegative(x) THEN RetThrow("Input must be non-negative")
    ELSE IF ExceedsMaxSafe(x) THEN RetThrow("Input exceeds maximum safe integer")
    ELSE IF x.v = 0 THEN RetValue(0)
    ELSE IF x.v = 1 THEN RetValue(1)
    ELSE IF x.v > SqrtOfTwiceMaxSafe
         THEN RetThrow("Result would exceed maximum safe integer")
    ELSE RetValue(IF x.v % 2 = 0 THEN (x.v \div 2) * (x.v + 1)
                  ELSE x.v * ((x.v + 1) \div 2))

RECURSIVE sumToNRecursiveTailOptimized(_, _)
sumToNRecursiveTailOptimized(n, accumulator) ==
    IF n = 0 THEN accumulator
    ELSE sumToNRecursiveTailOptimized(n - 1, accumulator + n)

sumToNRecursive(x) ==
    IF ~IsIntegerNumber(x) THEN RetThrow("Input must be an integer")
    ELSE IF IsNegative(x) THEN RetThrow("Input must be non-negative")
    ELSE IF ExceedsMaxSafe(x) \/ x.v > MAX_RECURSION_DEPTH
         THEN RetThrow("Input too large for recursive implementation")
    ELSE RetValue(sumToNRecursiveTailOptimized(x.v, 0))

RECURSIVE DivideConquerMissingCross(_)
\* (mutant) a divide and conquer that adds the two halves' sums as if both
\* started at 1
DivideConquerMissingCross(n) ==
    IF n <= 1 THEN n
    ELSE DivideConquerMissingCross(n \div 2) + DivideConquerMissingCross(n - (n \div 2))

RECURSIVE DivideConquer(_)
\* the recursion of sumToNRecursiveDivideConquer on an accepted n
DivideConquer(n) ==
    IF n <= 1 THEN n
    ELSE LET mid == n \div 2
             lowerSum == DivideConquer(mid)
             upperSum == DivideConquer(n - mid) + mid * (n - mid)
         IN lowerSum + upperSum

\* defined on the arguments the model can count with (not above 2^53)
sumToNRecursiveDivideConquer(x) ==
    IF ~IsIntegerNumber(x) \/ IsNegative(x)
    THEN RetThrow("Input must be a non-negative integer")
    ELSE RetValue(DivideConquer(x.v))

sum_to_n_a(x) == sumToNIterative(x)
sum_to_n_b(x) == sumToNFormula(x)
sum_to_n_c(x) == sumToNRecursive(x)
sum_to_n_d(x) == sumToNRecursiveDivideConquer(x)

\* the arguments tried: the integers -2..MaxN, and one of each other kind
SumInputs ==
    {Num(n) : n \in (0 - 2)..MaxN}
        \cup {Fraction(1), Fraction(0 - 1), NotANumber, Infinity, AboveMaxSafe,
              Str(<<"5">>), Undefined, NullValue, ArrayValue, ObjectValue}

SumResult(name, x, ret) ==
    /\ resp' = [op |-> name, req |-> x, status |-> 0, body |-> BodyMessage("none"),
                ret |-> ret]
    /\ UNCHANGED <<store, seq, now, created, deleted, supplied, aside>>

CallSumToNA == \E x \in SumInputs : SumResult("sum_to_n_a", x, sum_to_n_a(x))
CallSumToNB == \E x \in SumInputs : SumResult("sum_to_n_b", x, sum_to_n_b(x))
CallSumToNC == \E x \in SumInputs : SumResult("sum_to_n_c", x, sum_to_n_c(x))
CallSumToND ==
    \E x \in SumInputs \ {AboveMaxSafe} : SumResult("sum_to_n_d", x, sum_to_n_d(x))

NextSum ==
    \/ CallSumToNA
    \/ CallSumToNB
    \/ CallSumToNC
    \/ CallSumToND

SpecSum == Init /\ [][NextSum]_vars

\* ------------------------------------- problem 4: one recursion, frame by frame
\* The input of the test "should handle larger inputs better than simple
\* recursion".
LargeInput == 5000

\* the arguments tried: the test's input, the first integer above the
\* recursion guard, and the smallest inputs
DeepInputs == {Num(LargeInput), Num(MAX_RECURSION_DEPTH + 1), Num(0), Num(1)}

\* a pending call sumToNRecursiveTailOptimized(n, accumulator)
Frame(n, accumulator) == [kind |-> "frame", n |-> n, accumulator |-> accumulator]

\* sum_to_n_c(x) is called: the guards of sumToNRecursive, then the first
\* call of the tail-recursive helper
EnterSumToNC ==
    /\ resp.ret.kind # "frame"
    /\ \E x \in DeepInputs :
          SumResult("sum_to_n_c", x,
              IF ~IsIntegerNumber(x) THEN RetThrow("Input must be an integer")
              ELSE IF IsNegative(x) THEN RetThrow("Input must be non-negative")
              ELSE IF ExceedsMaxSafe(x) \/ x.v > MAX_RECURSION_DEPTH
                   THEN RetThrow("Input too large for recursive implementation")
              ELSE Frame(x.v, 0))

\* one call of sumToNRecursiveTailOptimized: the base case returns the
\* accumulator through every caller, any other n makes the next call
TailOptimizedCall ==
    /\ resp.ret.kind = "frame"
    /\ SumResult(resp.op, resp.req,
          IF resp.ret.n = 0 THEN RetValue(resp.ret.accumulator)
          ELSE Frame(resp.ret.n - 1, resp.ret.accumulator + resp.ret.n))

\* sumToNRecursiveDivideConquer(x), whose calls nest about log2(x) deep
CallDivideConquer ==
    /\ resp.ret.kind # "frame"
    /\ \E x \in DeepInputs :
          SumResult("sumToNRecursiveDivideConquer", x, sumToNRecursiveDivideConquer(x))

NextDeep ==
    \/ EnterSumToNC
    \/ TailOptimizedCall
    \/ CallDivideConquer

SpecDeep == Init /\ [][NextDeep]_vars

\* ------------------------------------------------------------ rate limiter
MaxClock == 3      \* last clock value of the rate limiter's runs
MaxCount == 3      \* requests counted in one entry of the Map
MaxAllowed == 2    \* largest maxRequests a limiter is made with
MaxWindow == 2     \* largest windowMs a limiter is made with

\* trackedReq.ip: "" stands for a request that carries no ip
Ips == {"", "10.0.0.1", "10.0.0.2"}

\* trackedReq.ip || 'unknown'
ClientIdOf(ip) == IF ip = "" THEN "unknown" ELSE ip

\* Clean up expired entries
CleanUp(requests, t) ==
    [k \in {c \in DOMAIN requests : ~(t > requests[c].resetTime)} |-> requests[k]]

\* (mutant) a new entry that already counts one request
RequestInfoCountingFromOne(requests, clientId, t, windowMs) ==
    IF clientId \notin DOMAIN requests \/ t > requests[clientId].resetTime
    THEN [count |-> 1, resetTime |-> t + windowMs]
    ELSE requests[clientId]

\* Get or create rate limit entry
RequestInfo(requests, clientId, t, windowMs) ==
    IF clientId \notin DOMAIN requests \/ t > requests[clientId].resetTime
    THEN [count |-> 0, resetTime |-> t + windowMs]
    ELSE requests[clientId]

\* (mutant) a limit that lets one more request through
ExceededByTwo(count, maxRequests) == count > maxRequests + 1

\* requestInfo.count > maxRequests
Exceeded(count, maxRequests) == count > maxRequests

MsPerSecond == 1000

\* the 429 body; retryAfter is Math.ceil((resetTime - now) / 1000)
BodyTooManyRequests(resetTime, t) ==
    [kind |-> "tooManyRequests", retryAfter |-> Ceil(resetTime - t, MsPerSecond)]

\* the middleware, on a request of `ip` that reads `t` from Date.now():
\* the Map it leaves, the X-RateLimit-Remaining header, and either the 429
\* response or the call of next()
RateLimiterHandler(lim, ip, t) ==
    LET clientId == ClientIdOf(ip)
        cleaned == CleanUp(lim.requests, t)
        info == RequestInfo(cleaned, clientId, t, lim.windowMs)
        counted == [info EXCEPT !.count = @ + 1]
        after == [k \in DOMAIN cleaned \cup {clientId} |->
                     IF k = clientId THEN counted ELSE cleaned[k]]
        remaining == Max2(0, lim.maxRequests - counted.count)
    IN  IF Exceeded(counted.count, lim.maxRequests)
        THEN [requests |-> after, remaining |-> remaining, status |-> 429,
              body |-> BodyTooManyRequests(counted.resetTime, t), next |-> FALSE]
        ELSE [requests |-> after, remaining |-> remaining, status |-> 0,
              body |-> BodyMessage("none"), next |-> TRUE]

\* rateLimiter(maxRequests, windowMs)
MakeRateLimiter ==
    /\ ~limiter.made
    /\ \E maxRequests \in 0..MaxAllowed, windowMs \in 0..MaxWindow :
          limiter' = [made |-> TRUE, maxRequests |-> maxRequests,
                      windowMs |-> windowMs, requests |-> <<>>]
    /\ UNCHANGED <<store, seq, now, resp, created, deleted, supplied, passed, server, calls>>

\* a request reaches the middleware
LimitedRequest ==
    /\ limiter.made
    /\ \E ip \in Ips, t \in now..MaxClock :
        \E a \in {RateLimiterHandler(limiter, ip, t)} :
          LET clientId == ClientIdOf(ip)
              fresh == clientId \notin DOMAIN limiter.requests
                           \/ t > limiter.requests[clientId].resetTime
          IN  /\ a.requests[clientId].count <= MaxCount
              /\ limiter' = [limiter EXCEPT !.requests = a.requests]
              /\ now' = t
              /\ resp' = [op |-> "rateLimiter",
                          req |-> [ip |-> ip, clientId |-> clientId, time |-> t,
                                   fresh |-> fresh,
                                   blocked |-> clientId \in DOMAIN limiter.requests
                                       /\ limiter.requests[clientId].count
                                              > limiter.maxRequests],
                          status |-> a.status, body |-> a.body,
                          ret |-> [kind |-> "next", called |-> a.next,
                                   remaining |-> a.remaining]]
              /\ passed' = [k \in DOMAIN a.requests |->
                              IF k = clientId
                              THEN (IF fresh THEN 0 ELSE passed[k])
                                       + (IF a.next THEN 1 ELSE 0)
                              ELSE passed[k]]
    /\ UNCHANGED <<store, seq, created, deleted, supplied, server, calls>>

NextLimiter ==
    \/ MakeRateLimiter
    \/ LimitedRequest

SpecLimiter == Init /\ [][NextLimiter]_vars

\* ------------------------------------- database manager and server start-up
MaxCalls == 2      \* asynchronous calls made in one run

\* getDatabaseConfig().retryAttempts
RetryAttempts == 3

\* a call of DatabaseManager.initialize() before its loop has run
InitializeCall(caller) ==
    [op |-> "initialize", caller |-> caller, pc |-> "loop", attempt |-> 1,
     made |-> 0, failed |-> 0]

\* the for loop of initialize from `call.attempt` up to its next await:
\* an iteration that finds isConnected set does nothing, any other invokes
\* dataSource.initialize() and awaits it
InitializeLoop(srv, call) ==
    IF call.attempt > RetryAttempts \/ srv.isConnected
    THEN [server |-> srv, call |-> [call EXCEPT !.pc = "returned"]]
    ELSE [server |-> [srv EXCEPT !.pending = @ + 1],
          call |-> [call EXCEPT !.pc = "attempt", !.made = @ + 1]]

\* (mutant) a catch block that always waits for another try
CatchOutcomeRetrying(attempt) == "waiting"

\* the catch block: the last attempt throws, any other waits retryDelay
CatchOutcome(attempt) ==
    IF attempt = RetryAttempts THEN "thrown" ELSE "waiting"

\* (mutant) a start-up that listens whatever initialize did
StartServerThenListening(srv, caller, pc) ==
    IF caller = "startServer" THEN [srv EXCEPT !.listening = TRUE]
    ELSE srv

\* what the caller does when initialize() has settled: startServer listens
\* after a return and calls process.exit(1) after an error
StartServerThen(srv, caller, pc) ==
    IF caller # "startServer" THEN srv
    ELSE IF pc = "returned" THEN [srv EXCEPT !.listening = TRUE]
    ELSE [srv EXCEPT !.process = "exited", !.exitCode = 1]

\* call i becomes `call` and the caller of a settled initialize() goes on
Settle(srv, i, call) ==
    /\ calls' = [calls EXCEPT ![i] = call]
    /\ server' = IF call.pc \in {"returned", "thrown"}
                 THEN StartServerThen(srv, call.caller, call.pc)
                 ELSE srv

Alive == server.process # "exited"

\* if (require.main === module) startServer()
StartServer ==
    /\ server.process = "loaded"
    /\ \E a \in {InitializeLoop([server EXCEPT !.process = "running"],
                                InitializeCall("startServer"))} :
          /\ calls' = Append(calls, a.call)
          /\ server' = IF a.call.pc = "returned"
                       THEN StartServerThen(a.server, "startServer", "returned")
                       ELSE a.server
    /\ UNCHANGED <<store, seq, now, resp, created, deleted, supplied, limiter, passed>>

\* DatabaseManager.getInstance().initialize() called by other code
CallInitialize ==
    /\ Alive
    /\ Len(calls) < MaxCalls
    /\ \E a \in {InitializeLoop(server, InitializeCall("direct"))} :
          /\ calls' = Append(calls, a.call)
          /\ server' = a.server
    /\ UNCHANGED <<store, seq, now, resp, created, deleted, supplied, limiter, passed>>

\* await this.dataSource.initialize() resolves: isConnected = true; return
AttemptSucceeds ==
    /\ Alive
    /\ \E i \in DOMAIN calls :
          /\ calls[i].op = "initialize"
          /\ calls[i].pc = "attempt"
          /\ Settle([server EXCEPT !.pending = @ - 1, !.isInitialized = TRUE,
                                   !.connections = @ + 1, !.isConnected = TRUE],
                    i, [calls[i] EXCEPT !.pc = "returned"])
    /\ UNCHANGED <<store, seq, now, resp, created, deleted, supplied, limiter, passed>>

\* await this.dataSource.initialize() rejects: the catch block
AttemptFails ==
    /\ Alive
    /\ \E i \in DOMAIN calls :
          /\ calls[i].op = "initialize"
          /\ calls[i].pc = "attempt"
          /\ Settle([server EXCEPT !.pending = @ - 1], i,
                    [calls[i] EXCEPT !.pc = CatchOutcome(calls[i].attempt),
                                     !.failed = @ + 1])
    /\ UNCHANGED <<store, seq, now, resp, created, deleted, supplied, limiter, passed>>

\* the setTimeout of retryDelay fires: attempt++ and the loop goes on
RetryTimerFires ==
    /\ Alive
    /\ \E i \in DOMAIN calls :
          /\ calls[i].op = "initialize"
          /\ calls[i].pc = "waiting"
          /\ \E a \in {InitializeLoop(server, [calls[i] EXCEPT !.attempt = @ + 1])} :
                Settle(a.server, i, a.call)
    /\ UNCHANGED <<store, seq, now, resp, created, deleted, supplied, limiter, passed>>

\* process.on('SIGINT'): close() awaits dataSource.destroy() when connected,
\* and otherwise returns at once and the handler calls process.exit(0)
SigInt ==
    /\ server.process = "running"
    /\ Len(calls) < MaxCalls
    /\ calls' = Append(calls, [op |-> "close",
                               pc |-> IF server.isConnected THEN "destroying"
                                      ELSE "done"])
    /\ server' = IF server.isConnected THEN server
                 ELSE [server EXCEPT !.process = "exited", !.exitCode = 0,
                                     !.listening = FALSE]
    /\ UNCHANGED <<store, seq, now, resp, created, deleted, supplied, limiter, passed>>

\* await this.dataSource.destroy() resolves: isConnected = false, then the
\* SIGINT handler calls process.exit(0)
DestroyResolves ==
    /\ Alive
    /\ \E i \in DOMAIN calls :
          /\ calls[i].op = "close"
          /\ calls[i].pc = "destroying"
          /\ calls' = [calls EXCEPT ![i].pc = "done"]
    /\ server' = [server EXCEPT !.isInitialized = FALSE, !.isConnected = FALSE,
                                !.process = "exited", !.exitCode = 0,
                                !.listening = FALSE]
    /\ UNCHANGED <<store, seq, now, resp, created, deleted, supplied, limiter, passed>>

\* await this.dataSource.destroy() rejects: process.exit(1)
DestroyRejects ==
    /\ Alive
    /\ \E i \in DOMAIN calls :
          /\ calls[i].op = "close"
          /\ calls[i].pc = "destroying"
          /\ calls' = [calls EXCEPT ![i].pc = "failed"]
    /\ server' = [server EXCEPT !.process = "exited", !.exitCode = 1,
                                !.listening = FALSE]
    /\ UNCHANGED <<store, seq, now, resp, created, deleted, supplied, limiter, passed>>

\* getRepository() of a repository method: getDataSource() throws while
\* isConnected is false, and the handler forwards the error
NotInitialized ==
    \E t \in Times :
        /\ now' = t
        /\ Respond("notInitialized", <<>>,
                   Forward(RetThrow("Database not initialized"), store, seq, t))
        /\ UNCHANGED <<store, seq, created, deleted, supplied, aside>>

\* a request reaches a route once app.listen has been called
Serve(handler) ==
    /\ server.process = "running"
    /\ server.listening
    /\ IF server.isConnected THEN handler ELSE NotInitialized

ServeCreate == Serve(CreateForStatus)
ServeUpdate == Serve(UpdateStatus)
ServeDelete == Serve(DeleteForStatus)

NextStartup ==
    \/ StartServer
    \/ AttemptSucceeds
    \/ AttemptFails
    \/ RetryTimerFires
    \/ SigInt
    \/ DestroyResolves
    \/ DestroyRejects
    \/ ServeCreate
    \/ ServeUpdate
    \/ ServeDelete

SpecStartup == Init /\ [][NextStartup]_vars

\* every awaited promise settles and every timer fires while the process runs
SpecStartupFair ==
    /\ SpecStartup
    /\ WF_vars(AttemptSucceeds \/ AttemptFails)
    /\ WF_vars(RetryTimerFires)

\* initialize() called more than once before the calls have settled
NextInitialize ==
    \/ CallInitialize
    \/ AttemptSucceeds
    \/ AttemptFails
    \/ RetryTimerFires

SpecInitialize == Init /\ [][NextInitialize]_vars

\* ------------------------------------------------- requests that overlap
\* A handler runs without interruption up to each await of a repository
\* method; every statement the repository awaits is executed by the
\* database as one atomic step, and the steps of the requests in flight
\* interleave in any order.

\* the controller's answer to what repository.update returned or threw
UpdateAnswer(ret, st, sq, t) ==
    CASE ret.kind = "throw" -> Forward(ret, st, sq, t)
      [] ret.kind = "null" ->
            Answer(404, BodyError(Msg("Resource not found")), ret, st, sq)
      [] OTHER -> Answer(200, BodyData(ToResourceResponse(ret.row)), ret, st, sq)

\* (mutant) a write that saves the entity read before, changed by the SET
\* clause: it inserts the row again when it is gone
PerformUpdateBySave(st, id, row, set) ==
    IF ~ColumnsAccept(set) THEN [ok |-> FALSE, store |-> st]
    ELSE [ok |-> TRUE, store |-> {r \in st : r.id # id} \cup {ApplySet(row, set)}]

\* Perform update: await this.getRepository().update(id, sanitizedData);
\* `row` is the resource read before, which the statement does not use
PerformUpdate(st, id, row, set) == UpdateRows(st, id, set)

\* a request that has been answered
Finished(call, a) ==
    [call EXCEPT !.pc = "done", !.status = a.status, !.ret = a.ret]

\* the requests that overlap
ConcurrentIds == {<<"1">>, <<"x">>}
ConcurrentPatches ==
    {Body(Str(<<"b", " ">>), Undefined, Undefined, Undefined),
     Body(Undefined, Num(5), Undefined, Undefined),
     Body(Undefined, Undefined, Str("archived"), Undefined),
     Body(Str(<<" ">>), Undefined, Undefined, Undefined)}
ConcurrentCreateBodies ==
    {Body(Str(<<"a">>), Num(0), Undefined, Undefined),
     Body(Str(<<"b">>), Num(10), Str("archived"), Str("image"))}

CreateWhileOthersRun == CreateResourceOf(ConcurrentCreateBodies)

\* DELETE /resources/:id arrives: the handler runs up to
\* await this.resourceRepository.delete(resourceId), or answers at once
\* when the id does not pass the checks made before it
StartDelete ==
    /\ Len(calls) < MaxCalls
    /\ \E idStr \in ConcurrentIds :
        \E a \in {DeleteResourceHandler({}, seq, idStr, now)} :
          LET call == [op |-> "delete", idStr |-> idStr, pc |-> "statement",
                       status |-> 0, ret |-> RetNone,
                       existed |-> ~ParseInt(idStr).nan
                                      /\ ParseInt(idStr).n \in Ids(store)]
          IN  IF a.status = 404
              THEN calls' = Append(calls, call) /\ UNCHANGED resp
              ELSE /\ calls' = Append(calls, Finished(call, a))
                   /\ Respond("delete", idStr, a)
    /\ UNCHANGED <<store, seq, now, created, deleted, supplied, limiter, passed, server>>

\* the DELETE statement runs and the handler answers
DeleteStatement ==
    \E i \in DOMAIN calls :
        /\ calls[i].op = "delete"
        /\ calls[i].pc = "statement"
        /\ \E a \in {DeleteResourceHandler(store, seq, calls[i].idStr, now)} :
              /\ store' = a.store
              /\ calls' = [calls EXCEPT ![i] = Finished(calls[i], a)]
              /\ Respond("delete", calls[i].idStr, a)
              /\ deleted' = IF a.ret.kind = "bool" /\ a.ret.b
                            THEN deleted \cup {ParseInt(calls[i].idStr).n}
                            ELSE deleted
              /\ supplied' = IF a.ret.kind = "bool" /\ a.ret.b
                             THEN {p \in supplied : p.id # ParseInt(calls[i].idStr).n}
                             ELSE supplied
        /\ UNCHANGED <<seq, now, created, limiter, passed, server>>

\* PUT /resources/:id arrives: the checks of the handler and of
\* repository.update, up to the first await (the findOne)
StartUpdate ==
    /\ Len(calls) < MaxCalls
    /\ \E idStr \in {<<"1">>}, body \in ConcurrentPatches :
        \E a \in {UpdateResourceHandler({}, seq, idStr, body, now)} :
          LET call == [op |-> "update", idStr |-> idStr, body |-> body,
                       pc |-> "read", status |-> 0, ret |-> RetNone,
                       found |-> FALSE, row |-> Null, set |-> Null, affected |-> 0]
          IN  IF a.status = 404
              THEN calls' = Append(calls, call) /\ UNCHANGED resp
              ELSE /\ calls' = Append(calls, Finished(call, a))
                   /\ Respond("update", [id |-> idStr, body |-> body], a)
    /\ UNCHANGED <<store, seq, now, created, deleted, supplied, limiter, passed, server>>

\* findOne({ where: { id } }) resolves: null is returned for no row,
\* otherwise sanitizedData is prepared and the UPDATE is awaited
UpdateRead ==
    \E i \in DOMAIN calls, t \in Times :
        /\ calls[i].op = "update"
        /\ calls[i].pc = "read"
        /\ now' = t
        /\ LET f == FindOne(store, ParseInt(calls[i].idStr).n)
           IN IF f.found
              THEN /\ calls' = [calls EXCEPT ![i].pc = "write", ![i].found = TRUE,
                                   ![i].row = f.row,
                                   ![i].set = SanitizedData(calls[i].body, t)]
                   /\ UNCHANGED resp
              ELSE \E a \in {UpdateAnswer(RetNull, store, seq, t)} :
                      /\ calls' = [calls EXCEPT ![i] = Finished(calls[i], a)]
                      /\ Respond("update",
                                 [id |-> calls[i].idStr, body |-> calls[i].body], a)
        /\ UNCHANGED <<store, seq, created, deleted, supplied, limiter, passed, server>>

\* the UPDATE statement runs: then the final findOne is awaited, or the
\* statement's error is wrapped and thrown
UpdateWrite ==
    \E i \in DOMAIN calls :
        /\ calls[i].op = "update"
        /\ calls[i].pc = "write"
        /\ LET id == ParseInt(calls[i].idStr).n
               u == PerformUpdate(store, id, calls[i].row, calls[i].set)
           IN IF u.ok
              THEN /\ store' = u.store
                   /\ calls' = [calls EXCEPT ![i].pc = "reread",
                                   ![i].affected = Cardinality({r \in store : r.id = id})]
                   /\ supplied' = {p \in supplied : p.id \notin Ids(store) \/ p.id # id}
                   /\ UNCHANGED resp
              ELSE \E a \in {UpdateAnswer(RetThrow("Failed to update resource"),
                                          store, seq, now)} :
                      /\ calls' = [calls EXCEPT ![i] = Finished(calls[i], a)]
                      /\ Respond("update",
                                 [id |-> calls[i].idStr, body |-> calls[i].body], a)
                      /\ UNCHANGED <<store, supplied>>
        /\ UNCHANGED <<seq, now, created, deleted, limiter, passed, server>>

\* Return updated resource: the final findOne resolves and the handler answers
UpdateReread ==
    \E i \in DOMAIN calls :
        /\ calls[i].op = "update"
        /\ calls[i].pc = "reread"
        /\ LET f == FindOne(store, ParseInt(calls[i].idStr).n)
           IN \E a \in {UpdateAnswer(IF f.found THEN RetEntity(f.row) ELSE RetNull,
                                     store, seq, now)} :
                 /\ calls' = [calls EXCEPT ![i] = Finished(calls[i], a)]
                 /\ Respond("update", [id |-> calls[i].idStr, body |-> calls[i].body], a)
        /\ UNCHANGED <<store, seq, now, created, deleted, supplied, limiter, passed,
                       server>>

\* (mutant) a grouped query that reports 1 for every value that occurs
GroupCountPresence(st, column) ==
    [v \in {r[column] : r \in st} |-> 1]

\* SELECT <column>, COUNT(*) ... GROUP BY <column>, read into
\* byStatus / byType: one count per value that occurs
GroupCount(st, column) ==
    [v \in {r[column] : r \in st} |-> Cardinality({r \in st : r[column] = v})]

RECURSIVE SumOfValues(_)
\* SUM(resource.value), in thousandths
SumOfValues(st) ==
    IF st = {} THEN 0
    ELSE LET r == CHOOSE x \in st : TRUE
         IN r.value + SumOfValues(st \ {r})

\* SELECT AVG(value), SUM(value): both are null over no rows, and
\* parseFloat(... || '0') reads null as 0; the average is kept as the
\* fraction num / den
ValueStats(st) ==
    IF st = {} THEN [average |-> [num |-> 0, den |-> 1], total |-> 0]
    ELSE [average |-> [num |-> SumOfValues(st), den |-> Cardinality(st)],
          total |-> SumOfValues(st)]

StatisticsQueries == {"count", "status", "type", "value"}

\* the result of one of the four queries of getStatistics on table st
QueryResult(query, st) ==
    CASE query = "count" -> Cardinality(st)
      [] query = "status" -> GroupCount(st, "status")
      [] query = "type" -> GroupCount(st, "type")
      [] query = "value" -> ValueStats(st)

\* what getStatistics returns from the four results
RetStatistics(results) ==
    [kind |-> "statistics",
     total |-> results["count"],
     byStatus |-> results["status"],
     byType |-> results["type"],
     averageValue |-> results["value"].average,
     totalValue |-> results["value"].total]

\* GET /resources/statistics arrives: getStatistics hands its four queries
\* to Promise.all
StartStatistics ==
    /\ Len(calls) < MaxCalls
    /\ calls' = Append(calls, [op |-> "statistics", pc |-> "queries",
                               status |-> 0, ret |-> RetNone,
                               results |-> <<>>])
    /\ UNCHANGED <<store, seq, now, resp, created, deleted, supplied, limiter, passed,
                   server>>

\* one of the four queries runs; after the last one the handler answers
\* res.json({ data: statistics })
StatisticsQuery ==
    \E i \in DOMAIN calls :
        /\ calls[i].op = "statistics"
        /\ calls[i].pc = "queries"
        /\ \E query \in StatisticsQueries \ DOMAIN calls[i].results :
            LET done == DOMAIN calls[i].results \cup {query}
                results == [q \in done |-> IF q = query THEN QueryResult(query, store)
                                           ELSE calls[i].results[q]]
            IN IF done = StatisticsQueries
               THEN \E a \in {Answer(200, BodyData(RetStatistics(results)),
                                     RetStatistics(results), store, seq)} :
                       /\ calls' = [calls EXCEPT ![i] =
                                       [Finished(calls[i], a) EXCEPT !.results = results]]
                       /\ Respond("statistics", <<>>, a)
               ELSE /\ calls' = [calls EXCEPT ![i].results = results]
                    /\ UNCHANGED resp
        /\ UNCHANGED <<store, seq, now, created, deleted, supplied, limiter, passed, server>>

NextConcurrent ==
    \/ CreateWhileOthersRun
    \/ StartDelete
    \/ DeleteStatement
    \/ StartUpdate
    \/ UpdateRead
    \/ UpdateWrite
    \/ UpdateReread

SpecConcurrent == Init /\ [][NextConcurrent]_vars

NextStatistics ==
    \/ CreateWhileOthersRun
    \/ StartDelete
    \/ DeleteStatement
    \/ StartStatistics
    \/ StatisticsQuery

SpecStatistics == Init /\ [][NextStatistics]_vars

\* ================================================================ claims
IdOf(text) == ParseInt(text).n
IsNumericId(text) == ~ParseInt(text).nan
RowIds(rows) == {rows[i].id : i \in 1..Len(rows)}
IsEmptyPatch(b) ==
    IsUndefined(b.name) /\ IsUndefined(b.value) /\ IsUndefined(b.status)
        /\ IsUndefined(b.type)

\* C1: every successfully created resource (create or bulk create) gets an
\* id that no earlier created resource had, deleted ones included, and no
\* operation changes the id of a stored resource: the set of stored ids
\* grows by exactly the new ids on a creation, loses at most the deleted id
\* on a delete, and is the same after every other request.
C1_Step ==
    /\ (resp'.op = "create" /\ resp'.status = 201) =>
          /\ resp'.ret.row.id \notin created
          /\ Ids(store') = Ids(store) \cup {resp'.ret.row.id}
    /\ (resp'.op = "bulk" /\ resp'.status = 201) =>
          /\ RowIds(resp'.ret.rows) \cap created = {}
          /\ Cardinality(RowIds(resp'.ret.rows)) = Len(resp'.ret.rows)
          /\ Ids(store') = Ids(store) \cup RowIds(resp'.ret.rows)
    /\ (resp'.op \in {"create", "bulk"} /\ resp'.status # 201) =>
          Ids(store') = Ids(store)
    /\ resp'.op \in {"update", "getById"} => Ids(store') = Ids(store)
    /\ resp'.op = "delete" =>
          /\ Ids(store') \subseteq Ids(store)
          /\ Ids(store) \ Ids(store') \subseteq {IdOf(resp'.req)}
    /\ Cardinality(Ids(store')) = Cardinality(store')

C1_FreshImmutableIds == [][C1_Step]_vars

\* a resource was created after another one had been deleted
C1_Witness ==
    /\ resp.op = "create"
    /\ resp.status = 201
    /\ deleted # {}
    /\ resp.ret.row.id \in Ids(store)

\* C2: findById of a created resource that was neither updated
\* nor deleted since returns the id, the trimmed name, the value V itself,
\* and the supplied status and type or active / other.
C2_FieldsAsSupplied(r, b, value) ==
    /\ r.name = Trim(b.name.v)
    /\ r.value = value
    /\ r.status = (IF IsUndefined(b.status) THEN "active" ELSE b.status.v)
    /\ r.type = (IF IsUndefined(b.type) THEN "other" ELSE b.type.v)

C2_Original ==
    (resp.op = "getById" /\ resp.ret.kind = "entity") =>
        /\ resp.ret.row.id = IdOf(resp.req)
        /\ \A p \in supplied :
              p.id = resp.ret.row.id =>
                  C2_FieldsAsSupplied(resp.ret.row, p.body, p.body.value.v)

\* C3: update(id, {}) on an existing resource changes no field of it but
\* updatedAt.
C3_Step ==
    (resp'.op = "update" /\ IsEmptyPatch(resp'.req.body) /\ resp'.ret.kind = "entity") =>
        /\ FindOne(store, resp'.ret.row.id).found
        /\ FindOne(store', resp'.ret.row.id).found
        /\ [FindOne(store', resp'.ret.row.id).row EXCEPT
               !.updatedAt = FindOne(store, resp'.ret.row.id).row.updatedAt]
             = FindOne(store, resp'.ret.row.id).row
        /\ resp'.ret.row = FindOne(store', resp'.ret.row.id).row

C3_EmptyPatchKeepsFields == [][C3_Step]_vars

\* an empty patch was applied to a resource that is not in its default
\* status, and moved its updatedAt
C3_Witness ==
    /\ resp.op = "update"
    /\ IsEmptyPatch(resp.req.body)
    /\ resp.ret.kind = "entity"
    /\ resp.ret.row.status # DefaultStatus
    /\ resp.ret.row.updatedAt > resp.ret.row.createdAt

\* C4: once delete(id) has returned true, every later findById(id) returns
\* null and every later delete(id) returns false.
C4_Step ==
    /\ (resp'.op = "getById" /\ IsNumericId(resp'.req) /\ IdOf(resp'.req) \in deleted) =>
          resp'.ret.kind = "null"
    /\ (resp'.op = "delete" /\ IsNumericId(resp'.req) /\ IdOf(resp'.req) \in deleted) =>
          (resp'.ret.kind = "bool" /\ ~resp'.ret.b)

C4_DeletedStaysDeleted == [][C4_Step]_vars

\* a deleted id was looked up after a later resource had been created
C4_Witness ==
    /\ resp.op = "getById"
    /\ IsNumericId(resp.req)
    /\ IdOf(resp.req) \in deleted
    /\ resp.ret.kind = "null"
    /\ \E r \in store : r.id > IdOf(resp.req)

\* C5: findAll with a page >= 1 and a limit L in 1..100 returns at most L
\* entities, each satisfying every supplied filter; total is the number of
\* stored entities matching the filter, whatever the page and L; and
\* totalPages is ceil(total / L).
C5_Satisfies(r, f) ==
    /\ f.status.t = "string" => r.status = f.status.v
    /\ f.type.t = "string" => r.type = f.type.v
    /\ f.minValue.t = "number" => r.value >= f.minValue.v * Scale
    /\ f.maxValue.t = "number" => r.value <= f.maxValue.v * Scale
    /\ f.createdAfter.t = "number" => r.createdAt >= f.createdAfter.v
    /\ f.createdBefore.t = "number" => r.createdAt <= f.createdBefore.v

C5_FindAllPage ==
    (resp.op = "getAll" /\ resp.ret.kind = "page") =>
        /\ resp.req.page >= 1
        /\ resp.req.limit \in 1..MaxLimit
        /\ Len(resp.ret.resources) <= resp.req.limit
        /\ \A i \in 1..Len(resp.ret.resources) :
              /\ resp.ret.resources[i] \in store
              /\ C5_Satisfies(resp.ret.resources[i], resp.req.filters)
        /\ resp.ret.total =
              Cardinality({r \in store : C5_Satisfies(r, resp.req.filters)})
        /\ resp.ret.totalPages * resp.req.limit >= resp.ret.total
        /\ (resp.ret.totalPages - 1) * resp.req.limit < resp.ret.total
        /\ resp.ret.total = 0 => resp.ret.totalPages = 0

\* the second page of limit 1 of a filtered listing that two resources match
C5_Witness ==
    /\ resp.op = "getAll"
    /\ resp.ret.kind = "page"
    /\ resp.req.filters.type.t = "string"
    /\ resp.req.limit = 1
    /\ resp.req.page = 2
    /\ resp.ret.total = 2
    /\ Len(resp.ret.resources) = 1

\* C6: an otherwise valid create whose name is the name of a stored
\* resource is answered 409 and leaves the store as it was.
C6_Step ==
    (/\ resp'.op = "create"
     /\ resp'.req.name.t = "string"
     /\ resp'.req.value.t = "number"
     /\ resp'.req.value.v >= 0
     /\ EnumAccepts(ResourceStatus, resp'.req.status)
     /\ EnumAccepts(ResourceType, resp'.req.type)
     /\ \E r \in store : r.name = Trim(resp'.req.name.v)) =>
        (resp'.status = 409 /\ store' = store)

C6_DuplicateNameConflict == [][C6_Step]_vars

\* C7: GET /resources with a limit greater than 100 is answered 400 and
\* returns no page of resources.
C7_LimitOver100Rejected ==
    (/\ resp.op = "getAll"
     /\ resp.req.query.limit.t = "string"
     /\ ~ParseInt(resp.req.query.limit.v).nan
     /\ ParseInt(resp.req.query.limit.v).n > MaxLimit) =>
        (resp.status = 400 /\ resp.body.kind # "page")

\* C8: DELETE /resources/:id with a numeric id that names no stored
\* resource is answered 404 and leaves the store as it was.
C8_IsNumeric(text) == text # <<>> /\ \A i \in 1..Len(text) : text[i] \in Digits

C8_Step ==
    (/\ resp'.op = "delete"
     /\ C8_IsNumeric(resp'.req)
     /\ IdOf(resp'.req) \notin Ids(store)) =>
        (resp'.status = 404 /\ store' = store)

C8_DeleteMissingIs404 == [][C8_Step]_vars

\* C9: a bulk request with an element whose name is empty after trimming
\* or whose value is not a non-negative number is answered 400 with the
\* index of the first such element, and persists nothing.
C9_InvalidAt(list) ==
    {i \in 1..Len(list) :
        \/ IsUndefined(list[i].name)
        \/ (list[i].name.t = "string" /\ Trim(list[i].name.v) = <<>>)
        \/ list[i].value.t # "number"
        \/ list[i].value.v < 0}

C9_Step ==
    (resp'.op = "bulk" /\ C9_InvalidAt(resp'.req) # {}) =>
        /\ resp'.status = 400
        /\ resp'.body.kind = "error"
        /\ \A i \in C9_InvalidAt(resp'.req) : resp'.body.msg.index + 1 <= i
        /\ resp'.body.msg.index + 1 \in C9_InvalidAt(resp'.req)
        /\ store' = store

C9_BulkRejectsInvalid == [][C9_Step]_vars

\* C10: every stored resource has a name that is non-empty after trimming,
\* a value >= 0, a type of the type enumeration and a status of the status
\* enumeration.
C10_StoredResourcesValid ==
    \A r \in store :
        /\ r.name # <<>>
        /\ \E i \in 1..Len(r.name) : r.name[i] \notin Whitespace
        /\ r.value >= 0
        /\ r.type \in {"document", "image", "video", "audio", "other"}
        /\ r.status \in {"active", "inactive", "pending", "archived"}

\* an update with a label outside the enumerations was refused on a stored
\* resource
C10_Witness ==
    /\ resp.op = "update"
    /\ resp.ret.kind = "throw"
    /\ IdOf(resp.req.id) \in Ids(store)
    /\ resp.req.body.name.t # "number"
    /\ ~EnumAccepts(ResourceStatus, resp.req.body.status)
          \/ ~EnumAccepts(ResourceType, resp.req.body.type)

\* C11: a request refused because its input is malformed or out of range is
\* answered 400, also when it is the repository that refuses it (an id <= 0
\* given to findById, update or delete).
C11_ValidationErrors ==
    {"Invalid resource ID", "Resource name is required",
     "Resource name cannot be empty",
     "Resource value must be a non-negative number"}

C11_ValidationIs400 ==
    (resp.ret.kind = "throw" /\ resp.ret.msg.text \in C11_ValidationErrors) =>
        resp.status = 400

\* C12: every response of status >= 400 carries the envelope
\* { error: { message, statusCode, timestamp } }.
C12_ErrorEnvelope ==
    resp.status >= 400 =>
        /\ resp.body.kind = "envelope"
        /\ resp.body.statusCode = resp.status

\* C13: when a handler answers 400 for a structural violation (missing or
\* empty name, value that is not a non-negative number, non-numeric id,
\* empty bulk payload), the repository is not called during the request and
\* the store is as it was.
C13_Step ==
    (resp'.op \in {"create", "bulk", "getById", "update", "delete"}
        /\ resp'.status = 400) =>
        /\ resp'.body.kind = "error"
        /\ resp'.ret.kind = "none"
        /\ store' = store
        /\ seq' = seq

C13_RejectedWithoutRepository == [][C13_Step]_vars

\* a bulk request was refused for its second element, after a valid first
C13_Witness ==
    /\ resp.op = "bulk"
    /\ resp.status = 400
    /\ resp.body.kind = "error"
    /\ resp.body.msg.index >= 1
    /\ BadNameAt(<<resp.req[1]>>) \cup BadValueAt(<<resp.req[1]>>) = {}

C15_BadPage(page) == ~page.int \/ page.n < 1
C15_BadLimit(limit) == ~limit.int \/ limit.n < 1 \/ limit.n > 100

C15_FindAllRefuses ==
    resp.op = "findAll" =>
        /\ C15_BadPage(resp.req.page) =>
              /\ resp.ret.kind = "throw"
              /\ resp.ret.msg.text = "Page must be a positive integer"
        /\ (~C15_BadPage(resp.req.page) /\ C15_BadLimit(resp.req.limit)) =>
              /\ resp.ret.kind = "throw"
              /\ resp.ret.msg.text = "Limit must be between 1 and 100"
        /\ resp.ret.kind = "page" =>
              /\ resp.ret.page = resp.req.page.n
              /\ Len(resp.ret.resources) <= resp.req.limit.n

\* a limit of 101 was refused although the table holds resources
C15_Witness ==
    /\ resp.op = "findAll"
    /\ resp.req.limit = JsInt(MaxLimit + 1)
    /\ resp.req.page = JsInt(1)
    /\ resp.ret.kind = "throw"
    /\ store # {}

\* C16: update(id, patch) with an acceptable patch on a stored resource
\* sets the fields the patch supplies among name (trimmed), value, status
\* and type to the supplied values, leaves the other fields, id,
\* description and createdAt as they were and sets updatedAt to the time of
\* the update; on an id that names no resource it returns null, is answered
\* 404 and changes nothing.
C16_Acceptable(b) ==
    /\ PatchNameCheck(b.name) = "ok"
    /\ ~PatchBadValue(b.value)
    /\ EnumAccepts(ResourceStatus, b.status)
    /\ EnumAccepts(ResourceType, b.type)

C16_Patched(old, new, b, value, t) ==
    /\ new.id = old.id
    /\ new.description = old.description
    /\ new.metadata = old.metadata
    /\ new.createdAt = old.createdAt
    /\ new.updatedAt = t
    /\ new.name = (IF IsUndefined(b.name) THEN old.name ELSE Trim(b.name.v))
    /\ new.value = (IF IsUndefined(b.value) THEN old.value ELSE value)
    /\ new.status = (IF IsUndefined(b.status) THEN old.status ELSE b.status.v)
    /\ new.type = (IF IsUndefined(b.type) THEN old.type ELSE b.type.v)

C16_Step ==
    (/\ resp'.op = "update"
     /\ IsNumericId(resp'.req.id)
     /\ IdOf(resp'.req.id) > 0
     /\ C16_Acceptable(resp'.req.body)) =>
        IF IdOf(resp'.req.id) \in Ids(store)
        THEN /\ resp'.status = 200
             /\ resp'.ret.kind = "entity"
             /\ FindOne(store', IdOf(resp'.req.id)).found
             /\ C16_Patched(FindOne(store, IdOf(resp'.req.id)).row,
                            FindOne(store', IdOf(resp'.req.id)).row,
                            resp'.req.body, resp'.req.body.value.v, now')
             /\ {r \in store' : r.id # IdOf(resp'.req.id)}
                   = {r \in store : r.id # IdOf(resp'.req.id)}
        ELSE /\ resp'.ret.kind = "null"
             /\ resp'.status = 404
             /\ store' = store

C16_UpdateSetsSuppliedFields == [][C16_Step]_vars

\* C17: the entities of a page findAll returns are in descending order of
\* creation time, and page p of limit L holds exactly the entities at
\* positions (p-1)*L+1 .. p*L of a descending-creation-time ordering of all
\* the entities that match the filter (entities created at the same time
\* may come in either order).
C17_Matching == {r \in store : C5_Satisfies(r, resp.req.filters)}

C17_Orderings ==
    {o \in [1..Cardinality(C17_Matching) -> C17_Matching] :
        /\ \A i, j \in DOMAIN o : i # j => o[i] # o[j]
        /\ \A i, j \in DOMAIN o : i < j => o[i].createdAt >= o[j].createdAt}

C17_Slice(o, p, l) ==
    [k \in 1..(IF p * l <= Len(o)
               THEN l
               ELSE IF (p - 1) * l >= Len(o) THEN 0 ELSE Len(o) - (p - 1) * l)
        |-> o[(p - 1) * l + k]]

C17_PageOfDescendingOrder ==
    (resp.op = "getAll" /\ resp.ret.kind = "page") =>
        /\ \A i, j \in 1..Len(resp.ret.resources) :
              i < j => resp.ret.resources[i].createdAt >= resp.ret.resources[j].createdAt
        /\ \E o \in C17_Orderings :
              resp.ret.resources = C17_Slice(o, resp.req.page, resp.req.limit)

\* the second page of limit 1 holds the older of two resources created at
\* different times
C17_Witness ==
    /\ resp.op = "getAll"
    /\ resp.ret.kind = "page"
    /\ resp.req.page = 2
    /\ resp.req.limit = 1
    /\ Len(resp.ret.resources) = 1
    /\ \E r \in C17_Matching : r.createdAt > resp.ret.resources[1].createdAt

\* C18: for a stored resource of any status and any status t of the
\* enumeration, update(id, {status: t}) succeeds and leaves the resource
\* with status t; no status is terminal.
C18_IsStatusPatch(b) ==
    /\ IsUndefined(b.name) /\ IsUndefined(b.value) /\ IsUndefined(b.type)
    /\ b.status.t = "string"
    /\ b.status.v \in {"active", "inactive", "pending", "archived"}

C18_Step ==
    (/\ resp'.op = "update"
     /\ C18_IsStatusPatch(resp'.req.body)
     /\ IdOf(resp'.req.id) \in Ids(store)) =>
        /\ resp'.status = 200
        /\ resp'.ret.kind = "entity"
        /\ resp'.ret.row.status = resp'.req.body.status.v
        /\ FindOne(store', IdOf(resp'.req.id)).row.status = resp'.req.body.status.v

C18_StatusUnconstrained == [][C18_Step]_vars

\* a resource that was created archived was moved to active while another
\* stored resource has a third status
C18_Witness ==
    /\ resp.op = "update"
    /\ resp.status = 200
    /\ C18_IsStatusPatch(resp.req.body)
    /\ resp.req.body.status.v = "active"
    /\ FindOne(store, IdOf(resp.req.id)).found
    /\ FindOne(store, IdOf(resp.req.id)).row.status = "active"
    /\ \E r \in store : r.status \in {"inactive", "pending"}

C20_Rejected(x) ==
    \/ x.t # "number"
    \/ x.v < 0

C21_LargeInput ==
    /\ (resp.op = "sum_to_n_c" /\ resp.req = Num(LargeInput) /\ resp.ret.kind # "frame")
           => resp.ret.kind = "throw"
    /\ (resp.op = "sumToNRecursiveDivideConquer" /\ resp.req = Num(LargeInput))
           => resp.ret = RetValue((LargeInput * (LargeInput + 1)) \div 2)

\* C22: within one window of a client (from the request that makes the
\* client's entry until the entry's resetTime) the rate limiter passes at
\* most maxRequests of the client's requests on to next(); every further
\* request of the client in the window is answered 429 and not passed on;
\* and a request of another client leaves this client's entry as it was,
\* or removes it once it has expired.
C22_Step ==
    (resp'.op = "rateLimiter" /\ limiter.made) =>
        /\ \A c \in DOMAIN limiter'.requests : passed'[c] <= limiter.maxRequests
        /\ (/\ ~resp'.req.fresh
            /\ passed[resp'.req.clientId] >= limiter.maxRequests)
              => (resp'.status = 429 /\ ~resp'.ret.called)
        /\ \A d \in DOMAIN limiter.requests \ {resp'.req.clientId} :
              IF d \in DOMAIN limiter'.requests
              THEN limiter'.requests[d] = limiter.requests[d] /\ passed'[d] = passed[d]
              ELSE resp'.req.time > limiter.requests[d].resetTime

C22_AtMostMaxRequestsPerWindow == [][C22_Step]_vars

\* a client is answered 429 after maxRequests >= 1 of its requests were
\* passed on in the window, while another client has an entry of its own
C22_Witness ==
    /\ resp.op = "rateLimiter"
    /\ resp.status = 429
    /\ limiter.maxRequests >= 1
    /\ passed[resp.req.clientId] = limiter.maxRequests
    /\ \E d \in DOMAIN limiter.requests : d # resp.req.clientId

\* C23: the first request of a client that arrives after its window's
\* resetTime (or after the expired entry was cleaned up) starts a new window:
\* the entry's count is 1, its resetTime is the request's time plus
\* windowMs, and the request is passed on to next() when maxRequests >= 1,
\* whatever the expired window had counted; so a client answered 429 is
\* admitted again by that request.
C23_Step ==
    (resp'.op = "rateLimiter" /\ limiter.made /\ resp'.req.fresh) =>
        LET c == resp'.req.clientId
        IN  /\ limiter'.requests[c].count = 1
            /\ limiter'.requests[c].resetTime = resp'.req.time + limiter.windowMs
            /\ (limiter.maxRequests >= 1) => (resp'.ret.called /\ resp'.status # 429)
            /\ passed'[c] = IF resp'.ret.called THEN 1 ELSE 0

C23_NewWindowAfterReset == [][C23_Step]_vars

\* a client whose expired entry had gone over the limit is passed on
C23_Witness ==
    /\ resp.op = "rateLimiter"
    /\ resp.req.fresh
    /\ resp.req.blocked
    /\ resp.ret.called
    /\ limiter.requests[resp.req.clientId].count = 1
    /\ resp.req.time > 0

\* C24: DatabaseManager.initialize always terminates (here: the call that
\* startServer makes returns or throws unless the process exits first); it
\* makes at most 3 connection attempts, makes a further attempt only after
\* the previous one failed, stops after the first successful attempt with
\* isConnected = true, and raises an error exactly when all 3 attempts
\* fail, leaving isConnected = false.
C24_Settled(call) == call.pc \in {"returned", "thrown"}

C24_Step ==
    \A i \in DOMAIN calls' :
        (calls'[i].op = "initialize") =>
            LET before == IF i \in DOMAIN calls THEN calls[i]
                          ELSE InitializeCall(calls'[i].caller)
                after == calls'[i]
            IN  /\ after.made <= RetryAttempts
                /\ after.made > before.made =>
                      /\ after.made = before.made + 1
                      /\ before.failed = before.made
                      /\ ~server.isConnected
                /\ (after.pc = "returned" /\ before.pc # "returned") =>
                      /\ server'.isConnected
                      /\ after.made = after.failed + 1
                      /\ before.pc = "attempt"
                /\ (after.pc = "thrown") <=> (after.failed = RetryAttempts)
                /\ (after.pc = "thrown" /\ before.pc # "thrown") =>
                      ~server'.isConnected
                /\ C24_Settled(before) => after = before

C25_Step ==
    /\ (server'.listening /\ ~server.listening) =>
          /\ server'.isConnected
          /\ calls' # <<>>
          /\ calls'[1].caller = "startServer"
          /\ calls'[1].pc = "returned"
    /\ (calls' # <<>> /\ calls'[1].pc = "thrown") =>
          /\ ~server'.listening
          /\ ~server.listening
          /\ server'.process = "exited"
          /\ server'.exitCode = 1
    /\ (resp' # resp) =>
          /\ server.listening
          /\ server.isConnected
          /\ server.process = "running"

C25_ListensAfterInitialize == [][C25_Step]_vars

\* a resource is created by a server whose first connection attempt failed
C25_Witness ==
    /\ server.listening
    /\ server.isConnected
    /\ calls # <<>>
    /\ calls[1].caller = "startServer"
    /\ calls[1].failed >= 1
    /\ resp.op = "create"
    /\ resp.status = 201

\* C26: for any interleaving of concurrent initialize() calls on the
\* DatabaseManager singleton, DataSource.initialize is never invoked on a
\* data source that is already initialized or whose initialization is
\* still in progress, and at most one connection is established.
C26_Step ==
    /\ (\E i \in DOMAIN calls' :
           /\ calls'[i].op = "initialize"
           /\ calls'[i].made > (IF i \in DOMAIN calls THEN calls[i].made ELSE 0))
          => (server.pending = 0 /\ ~server.isInitialized)
    /\ server'.connections <= 1

C26_SingleInitialization == [][C26_Step]_vars

\* C27: when several DELETE requests for the same stored id overlap,
\* exactly one delete(id) returns true and is answered 200, and every other
\* one returns false and is answered 404.
C27_DeletesOf(id) ==
    {i \in DOMAIN calls : /\ calls[i].op = "delete"
                          /\ IsNumericId(calls[i].idStr)
                          /\ IdOf(calls[i].idStr) = id}

C27_Succeeded(id) ==
    {i \in C27_DeletesOf(id) : calls[i].pc = "done" /\ calls[i].ret = RetBool(TRUE)}

C27_ExactlyOneDeleteSucceeds ==
    \A id \in 1..seq :
        /\ Cardinality(C27_Succeeded(id)) <= 1
        /\ \A i \in C27_DeletesOf(id) :
              calls[i].pc = "done" =>
                  \/ calls[i].ret = RetBool(TRUE) /\ calls[i].status = 200
                  \/ calls[i].ret = RetBool(FALSE) /\ calls[i].status = 404
        /\ (\E i \in C27_DeletesOf(id) : calls[i].existed /\ calls[i].pc = "done")
              => Cardinality(C27_Succeeded(id)) = 1

\* two DELETE requests for a stored id were both in flight and both have
\* been answered
C27_Witness ==
    /\ Len(calls) = 2
    /\ \A i \in {1, 2} :
          /\ calls[i].op = "delete"
          /\ calls[i].existed
          /\ calls[i].pc = "done"
          /\ calls[i].idStr = <<"1">>
    /\ {calls[1].status, calls[2].status} = {200, 404}

\* C28: update never re-creates a resource: when the row is deleted between
\* update's existence read and its write, or between its write and its final
\* re-read, the row stays absent from the table and update returns null
\* (the request is answered 404).
C28_Step ==
    \A i \in DOMAIN calls :
        (/\ calls[i].op = "update"
         /\ calls[i].pc \in {"write", "reread"}
         /\ calls'[i].pc # calls[i].pc
         /\ IdOf(calls[i].idStr) \notin Ids(store)) =>
            /\ IdOf(calls[i].idStr) \notin Ids(store')
            /\ store' = store
            /\ calls'[i].pc \in {"reread", "done"}
            /\ calls'[i].pc = "done" =>
                  (calls'[i].ret = RetNull /\ calls'[i].status = 404)

C28_UpdateNeverRecreates ==
    /\ [][C28_Step]_vars
    /\ [](\A id \in deleted : id \notin Ids(store))

\* an update found the row, wrote to no row because a delete had removed it
\* meanwhile, and returned null
C28_Witness ==
    \E i \in DOMAIN calls :
        /\ calls[i].op = "update"
        /\ calls[i].pc = "done"
        /\ calls[i].found
        /\ calls[i].affected = 0
        /\ calls[i].ret = RetNull
        /\ IdOf(calls[i].idStr) \in deleted
        /\ IdOf(calls[i].idStr) \notin Ids(store)

\* C29: two overlapping update calls on the same stored resource whose
\* patches supply disjoint sets of fields both take effect: once both are
\* done, the stored row holds what each patch set (the name trimmed, the
\* value as the column keeps it), in every interleaving of their reads and
\* writes.
C29_Fields(b) ==
    {f \in {"name", "value", "status", "type"} : ~IsUndefined(b[f])}

C29_Carries(r, b) ==
    /\ ~IsUndefined(b.name) => r.name = Trim(b.name.v)
    /\ ~IsUndefined(b.value) => r.value = RoundToScale(b.value.v)
    /\ ~IsUndefined(b.status) => r.status = b.status.v
    /\ ~IsUndefined(b.type) => r.type = b.type.v

C29_BothDone(i, j) ==
    /\ i # j
    /\ calls[i].op = "update" /\ calls[j].op = "update"
    /\ calls[i].pc = "done" /\ calls[j].pc = "done"
    /\ calls[i].status = 200 /\ calls[j].status = 200
    /\ calls[i].idStr = calls[j].idStr
    /\ C29_Fields(calls[i].body) \cap C29_Fields(calls[j].body) = {}
    /\ FindOne(store, IdOf(calls[i].idStr)).found

RECURSIVE C30_SumOver(_, _)
C30_SumOver(f, keys) ==
    IF keys = {} THEN 0
    ELSE LET k == CHOOSE x \in keys : TRUE
         IN f[k] + C30_SumOver(f, keys \ {k})

C30_Sum(f) == C30_SumOver(f, DOMAIN f)

C30_Original ==
    \A i \in DOMAIN calls :
        (calls[i].op = "statistics" /\ calls[i].pc = "done") =>
            /\ C30_Sum(calls[i].ret.byStatus) = calls[i].ret.total
            /\ C30_Sum(calls[i].ret.byType) = calls[i].ret.total

\* C30 (amended): getStatistics never changes the store; each of its four
\* queries reads the table as it is when the query runs, so total is the
\* number of rows at the count query, and the byStatus and the byType
\* counts sum to the number of rows at their own query; the sums equal
\* total when the queries read the same table.
C30_QueryRan(i, query) ==
    /\ i \in DOMAIN calls
    /\ calls[i].op = "statistics"
    /\ query \notin DOMAIN calls[i].results
    /\ query \in DOMAIN calls'[i].results

C30_Step ==
    \A i \in DOMAIN calls' :
        /\ (\E query \in StatisticsQueries : C30_QueryRan(i, query)) => store' = store
        /\ C30_QueryRan(i, "count") => calls'[i].results["count"] = Cardinality(store)
        /\ C30_QueryRan(i, "status") =>
              C30_Sum(calls'[i].results["status"]) = Cardinality(store)
        /\ C30_QueryRan(i, "type") =>
              C30_Sum(calls'[i].results["type"]) = Cardinality(store)
        /\ (calls'[i].op = "statistics" /\ calls'[i].pc = "done") =>
              /\ calls'[i].ret.total = calls'[i].results["count"]
              /\ calls'[i].ret.byStatus = calls'[i].results["status"]
              /\ calls'[i].ret.byType = calls'[i].results["type"]

C30_StatisticsPerQuery == [][C30_Step]_vars

\* statistics of a table of two resources of different status, returned
\* with sums that differ from total because a create committed between the
\* queries
C30_Witness ==
    \E i \in DOMAIN calls :
        /\ calls[i].op = "statistics"
        /\ calls[i].pc = "done"
        /\ calls[i].ret.total = 1
        /\ Cardinality(DOMAIN calls[i].ret.byStatus) = 2
        /\ C30_Sum(calls[i].ret.byStatus) = 2
        /\ C30_Sum(calls[i].ret.byType) = 2

====
